---- MODULE Spec2Model ----
(***************************************************************************)
(* Model of MavSystem (src/src/mavsystem.cpp): the per-vehicle hierarchy   *)
(* store (_data_from_path and the DataGroup tree), the relative-time state *)
(* machine, the reference pairs and the absolute-time offset.              *)
(*                                                                         *)
(* Conventions.                                                            *)
(*  - A path string "a/b/c" is the sequence <<"a","b","c">> of its         *)
(*    segments; string_split is then the identity and string_trim acts on  *)
(*    paths without surrounding blanks only.                               *)
(*  - A DataGroup object is identified by the chain of group names from    *)
(*    the top level down to it; a Data object is identified by the path it *)
(*    was created for and a serial number, the lowest one no live object   *)
(*    of that path has.  NULL is the empty sequence for both.              *)
(*  - Times are integers in microseconds: cand_time = usec/1E6 is kept as  *)
(*    the integer usec, and a threshold of s seconds is s * 1000000.       *)
(*  - TLC integers have 32 bits, so a uint64_t is modelled as an integer   *)
(*    modulo UINT64 = 2^30: the wrap-around of unsigned arithmetic is kept,*)
(*    its width is not.                                                    *)
(***************************************************************************)
EXTENDS Integers, Sequences, FiniteSets, TLC

VARIABLES
    _data_from_path,          \* data_accessmap: full path -> Data*
    mav_data_groups,          \* DataGroup::groupmap of the top level: name -> DataGroup*
    groups,                   \* the DataGroup objects: [groupname, parent, groups, data]
    data,                     \* the Data objects: [name, parent, kind, type, periodic, samples, epoch_datastart]
    _time,                    \* current relative time (usec)
    _time_min,
    _time_max,
    _time_valid,
    _have_time_update,
    _time_offset_raw,         \* vector<timeoffset_pair>: <<relative usec, epoch usec>>
    _time_offset_usec,
    _time_offset_guess_usec,
    mavtype,                  \* uint8_t: MAV_TYPE of the last heartbeat
    aptype,                   \* uint8_t: MAV_AUTOPILOT of the last heartbeat
    has_been_armed,
    _mavlink_summary,         \* mavlink_summary_t: the link counters
    lastCall                  \* the public operation that ran last: [op, arg, ret, pre]

hierVars == <<_data_from_path, mav_data_groups, groups, data>>
timeVars == <<_time, _time_min, _time_max, _time_valid, _have_time_update>>
offsetVars == <<_time_offset_raw, _time_offset_usec, _time_offset_guess_usec>>
trackVars == <<mavtype, aptype, has_been_armed, _mavlink_summary>>
vars == <<hierVars, timeVars, offsetVars, trackVars, lastCall>>

(***************************************************************************)
(* Maps (std::map): functions with a finite domain.                        *)
(***************************************************************************)
EmptyMap == [k \in {} |-> 0]

MapPut(m, k, v) == [x \in (DOMAIN m) \cup {k} |-> IF x = k THEN v ELSE m[x]]

MapErase(m, k) == [x \in (DOMAIN m) \ {k} |-> m[x]]

NULL == <<>>

NULLDATA == <<>>

(***************************************************************************)
(* The hierarchy store as one value, so that an operation that calls       *)
(* another (_add_data calls _del_data and _data_register_hierarchy) is the *)
(* composition of the two.                                                 *)
(***************************************************************************)
Store == [flat |-> _data_from_path, top |-> mav_data_groups, groups |-> groups, data |-> data]

\* new Data / Clone(): the address of the object created
NewDataId(S, fullname) ==
    CHOOSE id \in {<<fullname, i>> : i \in 0..Cardinality(DOMAIN S.data)} :
        /\ id \notin DOMAIN S.data
        /\ \A j \in 0..(id[2] - 1) : <<fullname, j>> \in DOMAIN S.data

\* new DataGroup(name) below parentgroup: the identity of the object created
NewGroupId(parentgroup, name) == Append(parentgroup, name)

\* Data::get_fullname: the names of the parent chain, then the unit's name
get_fullname(d) == Append(d.parent, d.name)

\* Data::is_present
is_present(d) == d.samples # <<>>

\* the samples q with sample s put before the first sample of a later time
RECURSIVE InsertByTime(_, _)
InsertByTime(q, s) ==
    IF q = <<>> THEN <<s>>
    ELSE IF s[1] < Head(q)[1] THEN <<s>> \o q
    ELSE <<Head(q)>> \o InsertByTime(Tail(q), s)

\* the samples q with the samples of r put in, in time order
RECURSIVE MergeByTime(_, _)
MergeByTime(q, r) ==
    IF r = <<>> THEN q ELSE MergeByTime(InsertByTime(q, Head(r)), Tail(r))

\* Data::merge_in: union of the samples, the incoming value winning at an equal
\* time; refused (false, nothing changed) when the representations differ
data_merge_in(mine, src) ==
    IF mine.kind # src.kind
    THEN [ok |-> FALSE, unit |-> mine]
    ELSE [ok |-> TRUE,
          unit |-> [mine EXCEPT !.samples =
                       MergeByTime(
                           SelectSeq(mine.samples,
                               LAMBDA s : \A i \in DOMAIN src.samples : src.samples[i][1] # s[1]),
                           src.samples)]]

\* _get_data<Data>(fullname): the unit at exactly that path, or NULL
_get_data(S, fullname) ==
    IF fullname \in DOMAIN S.flat THEN S.flat[fullname] ELSE NULLDATA

(***************************************************************************)
(* _data_register_hierarchy, lines 237-274                                 *)
(***************************************************************************)
RECURSIVE WalkHierarchy(_, _, _, _)
\* the loop of lines 256-269 from position i on; yields the store and curgroup
WalkHierarchy(S, path, i, parentgroup) ==
    IF i > Len(path)
    THEN [store |-> S, curgroup |-> parentgroup]
    ELSE LET currentGroupMap == IF parentgroup = NULL THEN S.top
                                ELSE S.groups[parentgroup].groups
         IN  IF path[i] \notin DOMAIN currentGroupMap
             THEN LET curgroup == NewGroupId(parentgroup, path[i])
                      created == [groupname |-> path[i], parent |-> parentgroup,
                                  groups |-> EmptyMap, data |-> EmptyMap]
                      S1 == [S EXCEPT !.groups = MapPut(@, curgroup, created)]
                      S2 == IF parentgroup = NULL
                            THEN [S1 EXCEPT !.top = MapPut(@, path[i], curgroup)]
                            ELSE [S1 EXCEPT !.groups[parentgroup].groups =
                                                MapPut(@, path[i], curgroup)]
                  IN  WalkHierarchy(S2, path, i + 1, curgroup)
             ELSE WalkHierarchy(S, path, i + 1, currentGroupMap[path[i]])

_data_register_hierarchy(S, fullname, item) ==
    LET S0 == [S EXCEPT !.flat = MapPut(@, fullname, item)]
        path == SubSeq(fullname, 1, Len(fullname) - 1)      \* pop_back
        w == WalkHierarchy(S0, path, 1, NULL)
    IN  IF w.curgroup = NULL
        THEN w.store
        ELSE [w.store EXCEPT
                 !.groups[w.curgroup].data = MapPut(@, S.data[item].name, item),
                 !.data[item].parent = w.curgroup]

(***************************************************************************)
(* _data_unregister_hierarchy, lines 295-324                               *)
(***************************************************************************)
\* CleanHierarchy with the walk upward left out: only the unit's own group is
\* looked at
CleanHierarchy_once(S, curgroup) ==
    IF curgroup = NULL
    THEN S
    ELSE LET parentgroup == S.groups[curgroup].parent
             groupname == S.groups[curgroup].groupname
             groupempty == /\ DOMAIN S.groups[curgroup].groups = {}
                           /\ DOMAIN S.groups[curgroup].data = {}
         IN  IF groupempty
             THEN LET S1 == IF parentgroup # NULL
                            THEN [S EXCEPT !.groups[parentgroup].groups =
                                               MapErase(@, groupname)]
                            ELSE [S EXCEPT !.top = MapErase(@, groupname)]
                  IN  [S1 EXCEPT !.groups = MapErase(@, curgroup)]
             ELSE S

RECURSIVE CleanHierarchy(_, _)
\* the loop of lines 307-323
CleanHierarchy(S, curgroup) ==
    IF curgroup = NULL
    THEN S
    ELSE LET parentgroup == S.groups[curgroup].parent
             groupname == S.groups[curgroup].groupname
             groupempty == /\ DOMAIN S.groups[curgroup].groups = {}
                           /\ DOMAIN S.groups[curgroup].data = {}
         IN  IF groupempty
             THEN LET S1 == IF parentgroup # NULL
                            THEN [S EXCEPT !.groups[parentgroup].groups =
                                               MapErase(@, groupname)]
                            ELSE [S EXCEPT !.top = MapErase(@, groupname)]
                      S2 == [S1 EXCEPT !.groups = MapErase(@, curgroup)]
                  IN  CleanHierarchy(S2, parentgroup)
             ELSE CleanHierarchy(S, parentgroup)

_data_unregister_hierarchy(S, src) ==
    LET parentgroup == S.data[src].parent
    IN  IF parentgroup = NULL
        THEN S
        ELSE IF S.data[src].name \notin DOMAIN S.groups[parentgroup].data
             THEN S
             ELSE CleanHierarchy(
                      [S EXCEPT !.groups[parentgroup].data =
                                    MapErase(@, S.data[src].name)],
                      parentgroup)

(***************************************************************************)
(* _del_data, lines 326-339                                                *)
(***************************************************************************)
_del_data(S, src) ==
    IF src = NULLDATA
    THEN S
    ELSE LET fullpath == get_fullname(S.data[src])
             S1 == [S EXCEPT !.flat = MapErase(@, fullpath)]
             S2 == _data_unregister_hierarchy(S1, src)
         IN  [S2 EXCEPT !.data = MapErase(@, src)]

(***************************************************************************)
(* _add_data, lines 341-369.  src is a unit of another System, given by    *)
(* value; the result is the store and the value returned.                  *)
\* _add_data that appends the incoming samples to those of a present unit
_add_data_append(S, src) ==
    LET fullname == get_fullname(src)
        mydata == IF fullname \in DOMAIN S.flat THEN S.flat[fullname] ELSE NULLDATA
    IN  IF mydata # NULLDATA
        THEN IF S.data[mydata].samples # <<>>
             THEN [store |-> [S EXCEPT !.data[mydata].samples = @ \o src.samples],
                   ret |-> S.data[mydata].kind = src.kind]
             ELSE LET S1 == _del_data(S, mydata)
                      copiedData == NewDataId(S1, fullname)
                      S2 == [S1 EXCEPT !.data = MapPut(@, copiedData, src)]
                  IN  [store |-> _data_register_hierarchy(S2, fullname, copiedData),
                       ret |-> TRUE]
        ELSE LET copiedData == NewDataId(S, fullname)
                 S1 == [S EXCEPT !.data = MapPut(@, copiedData, src)]
             IN  [store |-> _data_register_hierarchy(S1, fullname, copiedData),
                  ret |-> TRUE]

(***************************************************************************)
_add_data(S, src) ==
    LET fullname == get_fullname(src)
        mydata == _get_data(S, fullname)
    IN  IF mydata # NULLDATA
        THEN IF is_present(S.data[mydata])
             THEN LET m == data_merge_in(S.data[mydata], src)
                  IN  [store |-> [S EXCEPT !.data[mydata] = m.unit], ret |-> m.ok]
             ELSE LET S1 == _del_data(S, mydata)
                      copiedData == NewDataId(S1, fullname)
                      S2 == [S1 EXCEPT !.data = MapPut(@, copiedData, src)]
                  IN  [store |-> _data_register_hierarchy(S2, fullname, copiedData),
                       ret |-> TRUE]
        ELSE LET copiedData == NewDataId(S, fullname)
                 S1 == [S EXCEPT !.data = MapPut(@, copiedData, src)]
             IN  [store |-> _data_register_hierarchy(S1, fullname, copiedData),
                  ret |-> TRUE]

(***************************************************************************)
(* Relative time, lines 63-75 and 1529-1560                                *)
(***************************************************************************)
USEC_PER_SEC == 1000000

INFINITY == 2147483647

_time_maxfwdjump_sec == 100

_time_maxbackjump_sec == 5

UINT64 == 2 ^ 30

Time == [_time |-> _time, _time_min |-> _time_min, _time_max |-> _time_max,
         _time_valid |-> _time_valid, _have_time_update |-> _have_time_update]

\* update_rel_time with >= for > in the forward check
update_rel_time_ge(T, nowtime_relative_usec, allowjumps) ==
    LET cand_time == nowtime_relative_usec
        diff == IF T._time_valid THEN cand_time - T._time ELSE 0
        T1 == [T EXCEPT !._time_valid = TRUE]
    IN  IF diff < -(_time_maxbackjump_sec * USEC_PER_SEC) /\ ~allowjumps
        THEN [time |-> T1, ret |-> -1]
        ELSE IF diff >= _time_maxfwdjump_sec * USEC_PER_SEC /\ ~allowjumps
             THEN [time |-> T1, ret |-> 1]
             ELSE [time |-> [T1 EXCEPT
                                !._time_min = IF cand_time < @ THEN cand_time ELSE @,
                                !._time_max = IF cand_time > @ THEN cand_time ELSE @,
                                !._time = cand_time,
                                !._have_time_update = TRUE],
                   ret |-> 0]

\* update_rel_time with the backward check not asking for allowjumps
update_rel_time_noallow(T, nowtime_relative_usec, allowjumps) ==
    LET cand_time == nowtime_relative_usec
        diff == IF T._time_valid THEN cand_time - T._time ELSE 0
        T1 == [T EXCEPT !._time_valid = TRUE]
    IN  IF diff < -(_time_maxbackjump_sec * USEC_PER_SEC)
        THEN [time |-> T1, ret |-> -1]
        ELSE IF diff > _time_maxfwdjump_sec * USEC_PER_SEC /\ ~allowjumps
             THEN [time |-> T1, ret |-> 1]
             ELSE [time |-> [T1 EXCEPT
                                !._time_min = IF cand_time < @ THEN cand_time ELSE @,
                                !._time_max = IF cand_time > @ THEN cand_time ELSE @,
                                !._time = cand_time,
                                !._have_time_update = TRUE],
                   ret |-> 0]

\* update_rel_time with the difference taken also before the time is valid
update_rel_time_notrust(T, nowtime_relative_usec, allowjumps) ==
    LET cand_time == nowtime_relative_usec
        diff == cand_time - T._time
        T1 == [T EXCEPT !._time_valid = TRUE]
    IN  IF diff < -(_time_maxbackjump_sec * USEC_PER_SEC) /\ ~allowjumps
        THEN [time |-> T1, ret |-> -1]
        ELSE IF diff > _time_maxfwdjump_sec * USEC_PER_SEC /\ ~allowjumps
             THEN [time |-> T1, ret |-> 1]
             ELSE [time |-> [T1 EXCEPT
                                !._time_min = IF cand_time < @ THEN cand_time ELSE @,
                                !._time_max = IF cand_time > @ THEN cand_time ELSE @,
                                !._time = cand_time,
                                !._have_time_update = TRUE],
                   ret |-> 0]

\* update_rel_time that takes the candidate without extending the min time
update_rel_time_nomin(T, nowtime_relative_usec, allowjumps) ==
    LET cand_time == nowtime_relative_usec
        diff == IF T._time_valid THEN cand_time - T._time ELSE 0
        T1 == [T EXCEPT !._time_valid = TRUE]
    IN  IF diff < -(_time_maxbackjump_sec * USEC_PER_SEC) /\ ~allowjumps
        THEN [time |-> T1, ret |-> -1]
        ELSE IF diff > _time_maxfwdjump_sec * USEC_PER_SEC /\ ~allowjumps
             THEN [time |-> T1, ret |-> 1]
             ELSE [time |-> [T1 EXCEPT
                                !._time_min = IF ~T._time_valid THEN cand_time ELSE @,
                                !._time_max = IF cand_time > @ THEN cand_time ELSE @,
                                !._time = cand_time,
                                !._have_time_update = TRUE],
                   ret |-> 0]

\* update_rel_time that moves the current time to a candidate it rejects as a
\* forward jump
update_rel_time_advance(T, nowtime_relative_usec, allowjumps) ==
    LET cand_time == nowtime_relative_usec
        diff == IF T._time_valid THEN cand_time - T._time ELSE 0
        T1 == [T EXCEPT !._time_valid = TRUE]
    IN  IF diff < -(_time_maxbackjump_sec * USEC_PER_SEC) /\ ~allowjumps
        THEN [time |-> T1, ret |-> -1]
        ELSE IF diff > _time_maxfwdjump_sec * USEC_PER_SEC /\ ~allowjumps
             THEN [time |-> [T1 EXCEPT !._time = cand_time], ret |-> 1]
             ELSE [time |-> [T1 EXCEPT
                                !._time_min = IF cand_time < @ THEN cand_time ELSE @,
                                !._time_max = IF cand_time > @ THEN cand_time ELSE @,
                                !._time = cand_time,
                                !._have_time_update = TRUE],
                   ret |-> 0]

\* yields the time fields after the call and the value returned
update_rel_time(T, nowtime_relative_usec, allowjumps) ==
    LET cand_time == nowtime_relative_usec
        diff == IF T._time_valid THEN cand_time - T._time ELSE 0
        T1 == [T EXCEPT !._time_valid = TRUE]
    IN  IF diff < -(_time_maxbackjump_sec * USEC_PER_SEC) /\ ~allowjumps
        THEN [time |-> T1, ret |-> -1]
        ELSE IF diff > _time_maxfwdjump_sec * USEC_PER_SEC /\ ~allowjumps
             THEN [time |-> T1, ret |-> 1]
             ELSE [time |-> [T1 EXCEPT
                                !._time_min = IF cand_time < @ THEN cand_time ELSE @,
                                !._time_max = IF cand_time > @ THEN cand_time ELSE @,
                                !._time = cand_time,
                                !._have_time_update = TRUE],
                   ret |-> 0]

(***************************************************************************)
(* Reference pairs and the absolute offset, lines 1653-1693                *)
(***************************************************************************)
\* update_time_offset: the pairs after the call
update_time_offset_raw(raw, nowtime_relative_usec, epoch_usec) ==
    IF epoch_usec > 0
    THEN Append(raw, <<nowtime_relative_usec, epoch_usec>>)
    ELSE raw

\* shift_time: it->first -= udelay on every pair
shift_time_raw(raw, udelay) ==
    [i \in DOMAIN raw |-> <<(raw[i][1] - udelay) % UINT64, raw[i][2]>>]

\* update_time_offset_guess, lines 1641-1644.  The assert of line 1642 is
\* compiled in unless the build defines NDEBUG; where it fails the process is
\* aborted, and without it the unsigned difference wraps.
Builds == {"assert", "NDEBUG"}

update_time_offset_guess(guess, nowtime_relative_usec, epoch_usec, build) ==
    IF build = "assert" /\ ~(nowtime_relative_usec <= epoch_usec)
    THEN [ret |-> "aborted", guess |-> guess]
    ELSE IF epoch_usec > 0
    THEN [ret |-> "returned", guess |-> (epoch_usec - nowtime_relative_usec) % UINT64]
    ELSE [ret |-> "returned", guess |-> guess]

\* shift_time: _time_offset_guess_usec += udelay
shift_time_guess(guess, udelay) == (guess + udelay) % UINT64

RECURSIVE SumSeq(_)
SumSeq(q) == IF q = <<>> THEN 0 ELSE Head(q) + SumSeq(Tail(q))

\* lines 1674-1682: sum_diff over the pairs, sum_diff /= size, round.  The sum of
\* the doubles is exact for the values modelled; it is taken over the quotients
\* and the remainders by the size separately, each of which fits a TLC integer.
MeanOffset(raw) ==
    LET n == Len(raw)
        diff == [i \in DOMAIN raw |-> (raw[i][2] - raw[i][1]) % UINT64]
        quot == SumSeq([i \in DOMAIN raw |-> diff[i] \div n])
        rem  == SumSeq([i \in DOMAIN raw |-> diff[i] % n])
    IN  (quot + ((2 * rem + n) \div (2 * n))) % UINT64

\* determine_absolute_time, lines 1673-1687: the offset
determine_offset(raw, guess) ==
    IF raw # <<>> THEN MeanOffset(raw) ELSE guess

\* apply_offset passing over the derived units
apply_offset_rawonly(flat, units, offset) ==
    [u \in DOMAIN units |->
        IF (\E p \in DOMAIN flat : flat[p] = u) /\ units[u].type = "DATA_RAW"
        THEN [units[u] EXCEPT !.epoch_datastart = offset]
        ELSE units[u]]

\* determine_absolute_time, lines 1689-1692: the offset applied to all data
apply_offset(flat, units, offset) ==
    [u \in DOMAIN units |->
        IF \E p \in DOMAIN flat : flat[p] = u
        THEN [units[u] EXCEPT !.epoch_datastart = offset]
        ELSE units[u]]

(***************************************************************************)
(* Data units as the postprocessing passes use them.  The Data classes and *)
(* the macros of mavsystem_macros.h are declared outside mavsystem.cpp:    *)
(* add_elem appends, clear empties, get_data_at_time interpolates linearly *)
(* between the two samples around t and clamps at the ends, and fails on   *)
(* an empty unit.  Sample times are whole seconds and values are integers; *)
(* the inputs offered keep every interpolation and every trapezoid whole.  *)
(***************************************************************************)
\* DataTimeseries::add_elem(value, time), DataEvent::add_elem(value, time)
add_elem(d, value, t) == [d EXCEPT !.samples = Append(@, <<t, value>>)]

\* DataParam::add_elem(value)
param_add_elem(d, value) == [d EXCEPT !.samples = Append(@, <<value>>)]

\* Data::clear
clear(d) == [d EXCEPT !.samples = <<>>]

\* Data::set_type
set_type(d, type) == [d EXCEPT !.type = type]

\* Data::set_epoch_datastart
set_epoch_datastart(d, epoch) == [d EXCEPT !.epoch_datastart = epoch]

\* DataTimeseries::get_data_at_time(t, value): [ok, value]; value is untouched
\* (here 0) when there is none
get_data_at_time(d, t) ==
    LET q == d.samples
        n == Len(q)
    IN  IF n = 0 THEN [ok |-> FALSE, value |-> 0]
        ELSE IF t <= q[1][1] THEN [ok |-> TRUE, value |-> q[1][2]]
        ELSE IF t >= q[n][1] THEN [ok |-> TRUE, value |-> q[n][2]]
        ELSE LET i == CHOOSE j \in 1..(n - 1) :
                          /\ q[j][1] <= t /\ t < q[j + 1][1]
                          /\ \A h \in 1..(j - 1) : ~(q[h][1] <= t /\ t < q[h + 1][1])
                 ta == q[i][1]
                 tb == q[i + 1][1]
             IN  [ok |-> TRUE,
                  value |-> q[i][2] + ((q[i + 1][2] - q[i][2]) * (t - ta)) \div (tb - ta)]

\* _get_data<T>(fullname): the unit at that path if it is a T, else NULL
_get_data_as(S, fullname, kind) ==
    IF fullname \in DOMAIN S.flat /\ S.data[S.flat[fullname]].kind = kind
    THEN S.flat[fullname]
    ELSE NULLDATA

\* _get_and_possibly_create_data<T>(fullname, units): the unit at that path if it
\* is a T, NULL if it is something else, and else a new empty T registered there
_get_and_possibly_create_data(S, fullname, kind) ==
    IF fullname \in DOMAIN S.flat
    THEN [store |-> S, item |-> _get_data_as(S, fullname, kind)]
    ELSE LET item == NewDataId(S, fullname)
             created == [name |-> fullname[Len(fullname)], parent |-> NULL, kind |-> kind,
                         type |-> "DATA_RAW", periodic |-> FALSE, samples |-> <<>>,
                         epoch_datastart |-> 0]
             S1 == [S EXCEPT !.data = MapPut(@, item, created)]
         IN  [store |-> _data_register_hierarchy(S1, fullname, item), item |-> item]

\* a run of MAVSYSTEM_DATA_ITEM_OR_RETURN lines: the units wanted, in order, as
\* pairs <<fullname, kind>>; ok is false where one of the lines returned
RECURSIVE DataItemsOrReturn(_, _, _)
DataItemsOrReturn(S, wanted, items) ==
    IF wanted = <<>> THEN [store |-> S, items |-> items, ok |-> TRUE]
    ELSE LET r == _get_and_possibly_create_data(S, Head(wanted)[1], Head(wanted)[2])
         IN  IF r.item = NULLDATA
             THEN [store |-> r.store, items |-> items, ok |-> FALSE]
             ELSE DataItemsOrReturn(r.store, Tail(wanted), Append(items, r.item))

\* the units of items
ItemSet(items) == {items[i] : i \in DOMAIN items}

\* every unit that changed names replaced by what changed gives for it
ForItems(S, changed) ==
    [S EXCEPT !.data = [u \in DOMAIN @ |-> IF u \in DOMAIN changed THEN changed[u] ELSE @[u]]]

(***************************************************************************)
(* track_system, lines 402-529.  The status is the name of its MAV_STATE,  *)
(* or another name for a value outside the enum; the base mode is the set  *)
(* of the MAV_MODE_FLAG bits it has set.  size and get_latest belong to    *)
(* DataEvent: the number of entries and the value of the last one.         *)
(***************************************************************************)
SystemItems ==
    << <<<<"mission", "armed">>, "DataEvent">>,
       <<<<"mission", "stabilized">>, "DataEvent">>,
       <<<<"mission", "guided">>, "DataEvent">>,
       <<<<"mission", "manual">>, "DataEvent">>,
       <<<<"system", "status">>, "DataEvent">>,
       <<<<"system", "custom_mode">>, "DataTimeseries">> >>

\* lines 415-443: the switch over the status
strstate(status) ==
    CASE status = "MAV_STATE_UNINIT" -> "uninitialized"
      [] status = "MAV_STATE_BOOT" -> "boot"
      [] status = "MAV_STATE_CALIBRATING" -> "calibrating"
      [] status = "MAV_STATE_STANDBY" -> "standby"
      [] status = "MAV_STATE_ACTIVE" -> "active"
      [] status = "MAV_STATE_CRITICAL" -> "critical"
      [] status = "MAV_STATE_EMERGENCY" -> "emergency"
      [] status = "MAV_STATE_POWEROFF" -> "poweroff"
      [] OTHER -> "unknown"

size(d) == Len(d.samples)

get_latest(d) == d.samples[Len(d.samples)][2]

\* an event unit that is given every value
event_add_always(d, str, t) == add_elem(d, str, t)

\* lines 444-451 (and 461-465, 475-479, 488-492, 501-505): the value is added
\* to an empty unit and to one whose latest value differs
event_add_changed(d, str, t) ==
    IF size(d) # 0
    THEN IF get_latest(d) # str THEN add_elem(d, str, t) ELSE d
    ELSE add_elem(d, str, t)

\* lines 410-505 with the six units at hand
track_system_add(S, items, t, status, basemode, custmode) ==
    [S EXCEPT
        !.data[items[6]] = add_elem(@, custmode, t),
        !.data[items[5]] = event_add_changed(@, strstate(status), t),
        !.data[items[1]] = event_add_changed(@,
            IF "MAV_MODE_FLAG_SAFETY_ARMED" \in basemode THEN "armed" ELSE "disarmed", t),
        !.data[items[2]] = event_add_changed(@,
            IF "MAV_MODE_FLAG_STABILIZE_ENABLED" \in basemode
            THEN "stabilized on" ELSE "stabilized off", t),
        !.data[items[3]] = event_add_changed(@,
            IF "MAV_MODE_FLAG_GUIDED_ENABLED" \in basemode
            THEN "guided on" ELSE "guided off", t),
        !.data[items[4]] = event_add_changed(@,
            IF "MAV_MODE_FLAG_MANUAL_INPUT_ENABLED" \in basemode
            THEN "manual on" ELSE "manual off", t)]

\* r is what the MAVSYSTEM_DATA_ITEM_OR_RETURN lines 403-408 gave; sys is the
\* fields [mavtype, aptype, has_been_armed] of the System (lines 466, 511-527)
track_system_items(r, t, sys, stype, status, atype, basemode, custmode) ==
    IF ~r.ok THEN [store |-> r.store, outcome |-> "refused", sys |-> sys]
    ELSE [store |-> track_system_add(r.store, r.items, t, status, basemode, custmode),
          outcome |-> "done",
          sys |-> [mavtype |-> stype, aptype |-> atype,
                   has_been_armed |->
                       IF "MAV_MODE_FLAG_SAFETY_ARMED" \in basemode
                       THEN TRUE ELSE sys.has_been_armed]]

track_system(S, t, sys, stype, status, atype, basemode, custmode) ==
    track_system_items(DataItemsOrReturn(S, SystemItems, <<>>), t, sys, stype, status,
                       atype, basemode, custmode)

(***************************************************************************)
(* track_mavlink, lines 566-594.  The throughput sample is the quotient    *)
(* bytes / 128., kept as the pair of the bytes and 128.                    *)
(***************************************************************************)
PathThroughput == <<"radio", "throughput">>

\* the counting that takes only what it knows by name
mavlink_count_named(summary, data_length_bytes, msgid, whatwasdone) ==
    LET s1 == [summary EXCEPT !._link_throughput_bytes = @ + data_length_bytes,
                              !.num_received = @ + 1]
    IN  CASE whatwasdone = "MAVLINK_INTERPRETED" ->
                 [s1 EXCEPT !.num_interpreted = @ + 1,
                            !.mavlink_msgids_interpreted = @ \cup {msgid}]
          [] whatwasdone = "MAVLINK_UNINTERPRETED" ->
                 [s1 EXCEPT !.num_uninterpreted = @ + 1,
                            !.mavlink_msgids_uninterpreted = @ \cup {msgid}]
          [] whatwasdone = "MAVLINK_ERROR" -> [s1 EXCEPT !.num_error = @ + 1]
          [] OTHER -> s1

\* lines 570-587: the bytes and the counters
mavlink_count(summary, data_length_bytes, msgid, whatwasdone) ==
    LET s1 == [summary EXCEPT !._link_throughput_bytes = @ + data_length_bytes,
                              !.num_received = @ + 1]
    IN  CASE whatwasdone = "MAVLINK_INTERPRETED" ->
                 [s1 EXCEPT !.num_interpreted = @ + 1,
                            !.mavlink_msgids_interpreted = @ \cup {msgid}]
          [] whatwasdone = "MAVLINK_UNINTERPRETED" ->
                 [s1 EXCEPT !.num_uninterpreted = @ + 1,
                            !.mavlink_msgids_uninterpreted = @ \cup {msgid}]
          [] OTHER -> [s1 EXCEPT !.num_error = @ + 1]

\* lines 590-593 with the counters counted
track_mavlink_sample(S, data_throughput, t, have_time_update, summary) ==
    IF have_time_update
    THEN [store |-> [S EXCEPT !.data[data_throughput] =
                        add_elem(@, <<summary._link_throughput_bytes, 128>>, t)],
          outcome |-> "done",
          summary |-> [summary EXCEPT !._link_throughput_bytes = 0]]
    ELSE [store |-> S, outcome |-> "done", summary |-> summary]

\* r is what the MAVSYSTEM_DATA_ITEM_OR_RETURN line 567 gave
track_mavlink_items(r, t, have_time_update, summary, data_length_bytes, msgid, whatwasdone) ==
    IF ~r.ok THEN [store |-> r.store, outcome |-> "refused", summary |-> summary]
    ELSE track_mavlink_sample(r.store, r.items[1], t, have_time_update,
             mavlink_count(summary, data_length_bytes, msgid, whatwasdone))

track_mavlink(S, t, have_time_update, summary, data_length_bytes, msgid, whatwasdone) ==
    track_mavlink_items(
        DataItemsOrReturn(S, <<<<PathThroughput, "DataTimeseries">>>>, <<>>),
        t, have_time_update, summary, data_length_bytes, msgid, whatwasdone)

(***************************************************************************)
(* track_paths, lines 624-638.  The heading is a float, here a whole       *)
(* number of degrees.                                                      *)
(***************************************************************************)
PathsItems ==
    << <<<<"airstate", "lat">>, "DataTimeseries">>,
       <<<<"airstate", "lon">>, "DataTimeseries">>,
       <<<<"airstate", "alt GND">>, "DataTimeseries">>,
       <<<<"airstate", "alt MSL">>, "DataTimeseries">>,
       <<<<"airstate", "heading">>, "DataTimeseries">> >>

\* lines 631-637 with the five units at hand
track_paths_add(S, items, t, lat, lon, alt_rel_m, alt_msl_m, heading_deg) ==
    [S EXCEPT !.data[items[1]] = add_elem(@, lat, t),
              !.data[items[2]] = add_elem(@, lon, t),
              !.data[items[3]] = add_elem(@, alt_rel_m, t),
              !.data[items[4]] = add_elem(@, alt_msl_m, t),
              !.data[items[5]] = IF heading_deg <= 360
                                 THEN add_elem(@, heading_deg, t) ELSE @]

\* r is what the MAVSYSTEM_DATA_ITEM_OR_RETURN lines 625-629 gave
track_paths_items(r, t, lat, lon, alt_rel_m, alt_msl_m, heading_deg) ==
    IF ~r.ok THEN [store |-> r.store, outcome |-> "refused"]
    ELSE [store |-> track_paths_add(r.store, r.items, t, lat, lon, alt_rel_m, alt_msl_m,
                                    heading_deg),
          outcome |-> "done"]

track_paths(S, t, lat, lon, alt_rel_m, alt_msl_m, heading_deg) ==
    track_paths_items(DataItemsOrReturn(S, PathsItems, <<>>), t, lat, lon, alt_rel_m,
                      alt_msl_m, heading_deg)

(***************************************************************************)
(* _postprocess_flightbook, lines 1443-1518                                *)
(***************************************************************************)
PathAlt == <<"airstate", "alt GND">>

PathThrottle == <<"airstate", "throttle">>

FlightbookItems ==
    << <<<<"flightbook", "takeoff_landing">>, "DataEvent">>,
       <<<<"flightbook", "number flights">>, "DataParam">>,
       <<<<"flightbook", "total flight time">>, "DataParam">>,
       <<<<"flightbook", "first takeoff">>, "DataParam">>,
       <<<<"flightbook", "last landing">>, "DataParam">> >>

\* lines 1482-1489: the locals of the walk before its first sample
FlightWalkInit ==
    [flying |-> FALSE, t_takeoff |-> 0, t_first_takeoff |-> 0, t_last_landing |-> 0,
     nflights |-> 0, flighttime |-> 0, events |-> <<>>]

\* FlightWalk that lets the altitude alone decide
RECURSIVE FlightWalk_altonly(_, _, _, _)
FlightWalk_altonly(data_alt, data_throttle_percent, k, w) ==
    IF k > Len(data_alt.samples) THEN w
    ELSE LET t == data_alt.samples[k][1]
             alt == data_alt.samples[k][2]
             throttle == get_data_at_time(data_throttle_percent, t)
             seems_flying == alt > 1
         IN  IF ~throttle.ok
             THEN FlightWalk_altonly(data_alt, data_throttle_percent, k + 1, w)
             ELSE IF seems_flying /\ ~w.flying
             THEN FlightWalk_altonly(data_alt, data_throttle_percent, k + 1,
                      [w EXCEPT !.flying = TRUE,
                                !.events = Append(@, <<t, "takeoff">>),
                                !.nflights = @ + 1,
                                !.t_first_takeoff = IF w.nflights = 0 THEN t ELSE @,
                                !.t_takeoff = t])
             ELSE IF ~seems_flying /\ w.flying
             THEN FlightWalk_altonly(data_alt, data_throttle_percent, k + 1,
                      [w EXCEPT !.flying = FALSE,
                                !.events = Append(@, <<t, "landing">>),
                                !.t_last_landing = t,
                                !.flighttime = @ + (t - w.t_takeoff)])
             ELSE FlightWalk_altonly(data_alt, data_throttle_percent, k + 1, w)

\* FlightWalk that counts a flight when it lands
RECURSIVE FlightWalk_recount(_, _, _, _)
FlightWalk_recount(data_alt, data_throttle_percent, k, w) ==
    IF k > Len(data_alt.samples) THEN w
    ELSE LET t == data_alt.samples[k][1]
             alt == data_alt.samples[k][2]
             throttle == get_data_at_time(data_throttle_percent, t)
             seems_flying == alt > 1 /\ throttle.value > 20
         IN  IF ~throttle.ok
             THEN FlightWalk_recount(data_alt, data_throttle_percent, k + 1, w)
             ELSE IF seems_flying /\ ~w.flying
             THEN FlightWalk_recount(data_alt, data_throttle_percent, k + 1,
                      [w EXCEPT !.flying = TRUE,
                                !.events = Append(@, <<t, "takeoff">>),
                                !.t_first_takeoff = IF w.nflights = 0 THEN t ELSE @,
                                !.t_takeoff = t])
             ELSE IF ~seems_flying /\ w.flying
             THEN FlightWalk_recount(data_alt, data_throttle_percent, k + 1,
                      [w EXCEPT !.flying = FALSE,
                                !.events = Append(@, <<t, "landing">>),
                                !.nflights = @ + 1,
                                !.t_last_landing = t,
                                !.flighttime = @ + (t - w.t_takeoff)])
             ELSE FlightWalk_recount(data_alt, data_throttle_percent, k + 1, w)

\* lines 1490-1512: the walk along the altitude samples from sample k on
RECURSIVE FlightWalk(_, _, _, _)
FlightWalk(data_alt, data_throttle_percent, k, w) ==
    IF k > Len(data_alt.samples) THEN w
    ELSE LET t == data_alt.samples[k][1]
             alt == data_alt.samples[k][2]
             throttle == get_data_at_time(data_throttle_percent, t)
             seems_flying == alt > 1 /\ throttle.value > 20
         IN  IF ~throttle.ok
             THEN FlightWalk(data_alt, data_throttle_percent, k + 1, w)
             ELSE IF seems_flying /\ ~w.flying
             THEN FlightWalk(data_alt, data_throttle_percent, k + 1,
                      [w EXCEPT !.flying = TRUE,
                                !.events = Append(@, <<t, "takeoff">>),
                                !.nflights = @ + 1,
                                !.t_first_takeoff = IF w.nflights = 0 THEN t ELSE @,
                                !.t_takeoff = t])
             ELSE IF ~seems_flying /\ w.flying
             THEN FlightWalk(data_alt, data_throttle_percent, k + 1,
                      [w EXCEPT !.flying = FALSE,
                                !.events = Append(@, <<t, "landing">>),
                                !.t_last_landing = t,
                                !.flighttime = @ + (t - w.t_takeoff)])
             ELSE FlightWalk(data_alt, data_throttle_percent, k + 1, w)

\* lines 1463-1479 (and 1305-1320): every output unit is typed as derived,
\* cleared and given the epoch of the inputs
PrepareItems(S, items, epoch_datastart_usec) ==
    ForItems(S, [u \in ItemSet(items) |->
                    set_epoch_datastart(clear(set_type(S.data[u], "DATA_DERIVED")),
                                        epoch_datastart_usec)])

\* lines 1513-1516: what the walk found is filed in the output units
flightbook_file(S, items, w) ==
    [S EXCEPT !.data[items[1]].samples = w.events,
              !.data[items[2]] = param_add_elem(@, w.nflights),
              !.data[items[3]] = param_add_elem(@, w.flighttime),
              !.data[items[4]] = param_add_elem(@, w.t_first_takeoff),
              !.data[items[5]] = param_add_elem(@, w.t_last_landing)]

\* lines 1482-1516 with the output units prepared
flightbook_walk(S, items, data_alt, data_throttle_percent) ==
    flightbook_file(S, items,
        FlightWalk(S.data[data_alt], S.data[data_throttle_percent], 1, FlightWalkInit))

\* lines 1458-1516; r is what the MAVSYSTEM_DATA_ITEM_OR_RETURN lines gave
flightbook_items(r, data_alt, data_throttle_percent, epoch_datastart_usec) ==
    IF ~r.ok THEN [store |-> r.store, outcome |-> "refused"]
    ELSE [store |-> flightbook_walk(PrepareItems(r.store, r.items, epoch_datastart_usec),
                                    r.items, data_alt, data_throttle_percent),
          outcome |-> "done"]

\* the pass; outcome tells where it returned
_postprocess_flightbook(S) ==
    LET data_alt == _get_data_as(S, PathAlt, "DataTimeseries")
        data_throttle_percent == _get_data_as(S, PathThrottle, "DataTimeseries")
    IN  IF data_alt = NULLDATA \/ data_throttle_percent = NULLDATA
        THEN [store |-> S, outcome |-> "absent"]
        ELSE IF S.data[data_alt].epoch_datastart
                    # S.data[data_throttle_percent].epoch_datastart
        THEN [store |-> S, outcome |-> "unsynced"]
        ELSE flightbook_items(DataItemsOrReturn(S, FlightbookItems, <<>>),
                              data_alt, data_throttle_percent,
                              S.data[data_alt].epoch_datastart)

(***************************************************************************)
(* _postprocess_powerstats, lines 1288-1403.  A cumulated value x/3600 is  *)
(* kept as the pair <<x, 3600>> of its numerator and denominator.          *)
(***************************************************************************)
PathVolt == <<"power", "battery_voltage">>

PathAmps == <<"power", "battery_current">>

SEC_PER_HOUR == 3600

PowerItems ==
    << <<<<"power", "power">>, "DataTimeseries">>,
       <<<<"power", "inst. consumption">>, "DataTimeseries">>,
       <<<<"power", "inst. charge">>, "DataTimeseries">>,
       <<<<"power", "cum. consumption">>, "DataTimeseries">>,
       <<<<"power", "cum. charge">>, "DataTimeseries">> >>

\* lines 1327-1337: volt*amps at every voltage sample the current has a value for
RECURSIVE PowerWalk(_, _, _, _)
PowerWalk(data_battery_volt, data_battery_amps, k, power) ==
    IF k > Len(data_battery_volt.samples) THEN power
    ELSE LET t == data_battery_volt.samples[k][1]
             volt == data_battery_volt.samples[k][2]
             amps == get_data_at_time(data_battery_amps, t)
         IN  PowerWalk(data_battery_volt, data_battery_amps, k + 1,
                       IF amps.ok THEN Append(power, <<t, volt * amps.value>>) ELSE power)

\* Integrate with rectangles for trapezoids
RECURSIVE Integrate_rect(_, _, _)
Integrate_rect(q, k, w) ==
    IF k > Len(q) THEN w
    ELSE IF k = 1
    THEN Integrate_rect(q, k + 1,
             [w EXCEPT !.inst = Append(@, <<q[k][1], 0>>),
                       !.cum = Append(@, <<q[k][1], <<0, SEC_PER_HOUR>>>>)])
    ELSE LET step == (q[k][1] - q[k - 1][1]) * q[k - 1][2]
         IN  Integrate_rect(q, k + 1,
                 [w EXCEPT !.sum = @ + step,
                           !.inst = Append(@, <<q[k][1], step>>),
                           !.cum = Append(@, <<q[k][1], <<w.sum + step, SEC_PER_HOUR>>>>)])

\* lines 1343-1369 and 1374-1400: the trapezoids between consecutive samples of q
\* and their running sum over 3600, from sample k on
RECURSIVE Integrate(_, _, _)
Integrate(q, k, w) ==
    IF k > Len(q) THEN w
    ELSE IF k = 1
    THEN Integrate(q, k + 1,
             [w EXCEPT !.inst = Append(@, <<q[k][1], 0>>),
                       !.cum = Append(@, <<q[k][1], <<0, SEC_PER_HOUR>>>>)])
    ELSE LET step == ((q[k][1] - q[k - 1][1]) * (q[k - 1][2] + q[k][2])) \div 2
         IN  Integrate(q, k + 1,
                 [w EXCEPT !.sum = @ + step,
                           !.inst = Append(@, <<q[k][1], step>>),
                           !.cum = Append(@, <<q[k][1], <<w.sum + step, SEC_PER_HOUR>>>>)])

IntegrateInit == [sum |-> 0, inst |-> <<>>, cum |-> <<>>]

\* lines 1327-1400: the output units filled from the power, its integral and
\* the integral of the current
powerstats_file(S, items, power, charge, consumption) ==
    [S EXCEPT !.data[items[1]].samples = power,
              !.data[items[2]].samples = consumption.inst,
              !.data[items[3]].samples = charge.inst,
              !.data[items[4]].samples = consumption.cum,
              !.data[items[5]].samples = charge.cum]

\* lines 1343-1400 with the power computed
powerstats_integrate(S, items, data_battery_amps, power) ==
    powerstats_file(S, items, power,
                    Integrate(S.data[data_battery_amps].samples, 1, IntegrateInit),
                    Integrate(power, 1, IntegrateInit))

\* lines 1327-1400 with the output units prepared
powerstats_power(S, items, data_battery_volt, data_battery_amps) ==
    powerstats_integrate(S, items, data_battery_amps,
        PowerWalk(S.data[data_battery_volt], S.data[data_battery_amps], 1, <<>>))

\* lines 1300-1400; r is what the MAVSYSTEM_DATA_ITEM_OR_RETURN lines gave
powerstats_items(r, data_battery_volt, data_battery_amps, epoch_datastart_usec) ==
    IF ~r.ok THEN [store |-> r.store, outcome |-> "refused"]
    ELSE [store |-> powerstats_power(PrepareItems(r.store, r.items, epoch_datastart_usec),
                                     r.items, data_battery_volt, data_battery_amps),
          outcome |-> "done"]

\* the pass; outcome tells where it returned
_postprocess_powerstats(S) ==
    LET data_battery_volt == _get_data_as(S, PathVolt, "DataTimeseries")
        data_battery_amps == _get_data_as(S, PathAmps, "DataTimeseries")
    IN  IF data_battery_volt = NULLDATA \/ data_battery_amps = NULLDATA
        THEN [store |-> S, outcome |-> "absent"]
        ELSE IF S.data[data_battery_volt].epoch_datastart
                    # S.data[data_battery_amps].epoch_datastart
        THEN [store |-> S, outcome |-> "unsynced"]
        ELSE powerstats_items(DataItemsOrReturn(S, PowerItems, <<>>),
                              data_battery_volt, data_battery_amps,
                              S.data[data_battery_amps].epoch_datastart)

(***************************************************************************)
(* _postprocess_bad_timing, lines 1410-1437.  has_bad_timestamps and       *)
(* make_periodic belong to DataTimed: a unit expected to be periodic is    *)
(* bad while its times are not evenly spaced, and make_periodic spaces     *)
(* them evenly between the first and the last.                             *)
(***************************************************************************)
IsDataTimed(d) == d.kind \in {"DataTimeseries", "DataEvent"}

EvenlySpaced(q) ==
    \A i \in 2..(Len(q) - 1) : q[i + 1][1] - q[i][1] = q[i][1] - q[i - 1][1]

has_bad_timestamps(d) == d.periodic /\ ~EvenlySpaced(d.samples)

make_periodic(d) ==
    LET q == d.samples
        n == Len(q)
    IN  IF n < 2 THEN d
        ELSE [d EXCEPT !.samples =
                 [i \in 1..n |->
                     <<q[1][1] + ((i - 1) * (q[n][1] - q[1][1])) \div (n - 1), q[i][2]>>]]

\* the loop over the copy of the flat map; todo is the units of the copy not
\* visited yet (no step reads what another step writes, so the order is free)
RECURSIVE BadTimingWalk(_, _)
BadTimingWalk(S, todo) ==
    IF todo = {} THEN S
    ELSE LET d == CHOOSE u \in todo : TRUE
             ds == S.data[d]
             data_orig == [ds EXCEPT !.name = @ \o "_orig"]
             fullname == get_fullname(data_orig)
             item == NewDataId(S, fullname)
             S1 == [S EXCEPT !.data = MapPut(@, item, data_orig)]
             S2 == _data_register_hierarchy(S1, fullname, item)
             S3 == [S2 EXCEPT !.data[d] = make_periodic(@)]
         IN  IF IsDataTimed(ds) /\ has_bad_timestamps(ds)
             THEN BadTimingWalk(S3, todo \ {d})
             ELSE BadTimingWalk(S, todo \ {d})

_postprocess_bad_timing(S) ==
    LET oldmap == S.flat
        S1 == BadTimingWalk(S, {oldmap[p] : p \in DOMAIN oldmap})
    IN  [store |-> S1, outcome |-> "done"]

(***************************************************************************)
(* get_data<T>(pattern, true): the unit whose path matches the pattern.    *)
(* A pattern \bW\b is the set of the words W it admits and matches a path  *)
(* with such a segment; a pattern "G/N" is the segments <<G, N>> and       *)
(* matches a path that holds them in a row.  Which of several matching     *)
(* units is taken is not fixed; the inputs offered give at most one.       *)
(***************************************************************************)
Word(words) == [words |-> words, segs |-> <<>>]

Sub(segs) == [words |-> {}, segs |-> segs]

Matches(pattern, path) ==
    \/ \E i \in DOMAIN path : path[i] \in pattern.words
    \/ /\ pattern.segs # <<>>
       /\ \E i \in 1..(Len(path) - Len(pattern.segs) + 1) :
              SubSeq(path, i, i + Len(pattern.segs) - 1) = pattern.segs

get_data(S, pattern) ==
    LET found == {p \in DOMAIN S.flat : Matches(pattern, p)}
        best == CHOOSE p \in found : TRUE
    IN  IF found = {} THEN NULLDATA
        ELSE _get_data_as(S, best, "DataTimeseries")

\* sqrt of a square
ISqrt(n) == CHOOSE r \in 0..n : r * r <= n /\ n < (r + 1) * (r + 1)

(***************************************************************************)
(* _postprocess_glideperf_pos, lines 958-1006.  hdist_pre is read at the   *)
(* second sample before anything was assigned to it: its first value is    *)
(* whatever the stack held, given to the pass as hdist_pre0.               *)
(***************************************************************************)
PathDist == <<"glideperf", "cum. horz. dist.">>

\* lines 992-1004, from sample k on; w is [x_pre, y_pre, hdist_pre, dist]
RECURSIVE DistWalk(_, _, _, _, _)
DistWalk(data_x, data_y, data_z, k, w) ==
    IF k > Len(data_x.samples) THEN w
    ELSE LET t == data_x.samples[k][1]
             x == data_x.samples[k][2]
             y == get_data_at_time(data_y, t)
             z == get_data_at_time(data_z, t)
             dx == x - w.x_pre
             dy == y.value - w.y_pre
             hdist == ISqrt(dx * dx + dy * dy) + w.hdist_pre
         IN  IF ~(y.ok /\ z.ok) THEN DistWalk(data_x, data_y, data_z, k + 1, w)
             ELSE IF k > 1
             THEN DistWalk(data_x, data_y, data_z, k + 1,
                      [x_pre |-> x, y_pre |-> y.value, hdist_pre |-> hdist,
                       dist |-> Append(w.dist, <<t, hdist>>)])
             ELSE DistWalk(data_x, data_y, data_z, k + 1,
                      [w EXCEPT !.x_pre = x, !.y_pre = y.value])

\* the pass; outcome tells where it returned
_postprocess_glideperf_pos(S, hdist_pre0) ==
    LET data_x == get_data(S, Word({"PN"}))
        data_y == get_data(S, Word({"PE"}))
        data_z == get_data(S, Word({"PD"}))
        r == _get_and_possibly_create_data(S, PathDist, "DataTimeseries")
        data_dist == r.item
        S1 == [r.store EXCEPT !.data[data_dist] = set_type(@, "DATA_DERIVED")]
        w == DistWalk(S1.data[data_x], S1.data[data_y], S1.data[data_z], 1,
                      [x_pre |-> 0, y_pre |-> 0, hdist_pre |-> hdist_pre0,
                       dist |-> S1.data[data_dist].samples])
    IN  IF data_x = NULLDATA \/ data_y = NULLDATA \/ data_z = NULLDATA
        THEN [store |-> S, outcome |-> "absent"]
        ELSE IF data_dist = NULLDATA THEN [store |-> r.store, outcome |-> "refused"]
        ELSE [store |-> [S1 EXCEPT !.data[data_dist].samples = w.dist],
              outcome |-> "done"]

(***************************************************************************)
(* _postprocess_glideperf_vel, lines 1013-1282.  Angles are whole degrees; *)
(* the wind and the yaw offered lie on multiples of 90 degrees, where the  *)
(* sines and cosines of lines 1202-1215 are 0, 1 or -1.  A glide ratio     *)
(* (airspeed / sink) / cos(roll) is kept as <<airspeed, sink, |roll|>>.    *)
(***************************************************************************)
SPEED_MIN == 5

ACCX_MAX == 2

PITCH_MAX == 20

ROLL_MAX == 45

PathGroundspeed == <<"glideperf", "groundspeed">>

PathGlideratio == <<"glideperf", "glide ratio">>

PathGlideratio5 == <<"glideperf", "glide ratio 5sec avg">>

PathWinddir == <<"glideperf", "wind direction">>

PathWindspd == <<"glideperf", "wind speed">>

PathWindrel == <<"glideperf", "relative wind angle">>

PathWindhd == <<"glideperf", "head wind">>

PathAirspeedest == <<"glideperf", "airspeed estimate">>

fabs(x) == IF x < 0 THEN -x ELSE x

angle360(x) == x % 360

\* cos of a multiple of 90 degrees
Cos90(deg) == CASE angle360(deg) = 0 -> 1 [] angle360(deg) = 180 -> -1 [] OTHER -> 0

\* line 1202: 180/pi * atan2(-wE, -wN) for a wind along an axis, in [0, 360)
WindDir(wE, wN) ==
    CASE wE = 0 /\ wN <= 0 -> 0
      [] wE = 0 /\ wN > 0  -> 180
      [] wE < 0            -> 90
      [] OTHER             -> 270

\* DataTimeseries::get_max() - get_min() of a unit (0 for an empty one)
Spread(d) ==
    LET vs == {d.samples[i][2] : i \in DOMAIN d.samples}
    IN  IF vs = {} THEN 0
        ELSE (CHOOSE m \in vs : \A v \in vs : v <= m) - (CHOOSE m \in vs : \A v \in vs : m <= v)

\* lines 1096-1104: sqrt(ve^2 + vn^2) at every sample of VE that VN has a value for
RECURSIVE GroundspeedWalk(_, _, _, _)
GroundspeedWalk(data_ve, data_vn, k, out) ==
    IF k > Len(data_ve.samples) THEN out
    ELSE LET t == data_ve.samples[k][1]
             ve == data_ve.samples[k][2]
             vn == get_data_at_time(data_vn, t)
         IN  GroundspeedWalk(data_ve, data_vn, k + 1,
                 IF vn.ok THEN Append(out, <<t, ISqrt(ve * ve + vn.value * vn.value)>>)
                 ELSE out)

\* lines 1192-1231, from sample k of VWE on.  c names the units found; the result
\* is the store and whether one of the lines in the loop returned.  (The VWN and
\* Yaw units offered are never empty: wN and yaw are set by get_data_at_time only.)
RECURSIVE WindWalk(_, _, _)

\* lines 1225-1229: the airspeed estimate at the time t; r3 is the unit it is
\* added to, gspeed the ground speed at t
WindAirspeed(r3, c, k, t, gspeed, windhd) ==
    IF r3.item = NULLDATA THEN [store |-> r3.store, returned |-> TRUE]
    ELSE WindWalk([r3.store EXCEPT !.data[r3.item] =
                      add_elem(set_type(@, "DATA_DERIVED"), gspeed + windhd, t)],
                  c, k + 1)

\* lines 1223-1230: the airspeed estimate where there is a ground speed
WindGround(S, c, k, t, windhd) ==
    IF c.data_gspeed = NULLDATA THEN WindWalk(S, c, k + 1)
    ELSE WindAirspeed(_get_and_possibly_create_data(S, PathAirspeedest, "DataTimeseries"),
                      c, k, t, get_data_at_time(S.data[c.data_gspeed], t).value, windhd)

\* lines 1217-1221: the relative wind angle and the head wind are added to the
\* units item1 and r2.item
WindHead(item1, r2, c, k, t, windrel, windhd) ==
    IF r2.item = NULLDATA THEN [store |-> r2.store, returned |-> TRUE]
    ELSE WindGround([r2.store EXCEPT
                        !.data[item1] = add_elem(set_type(@, "DATA_DERIVED"), windrel, t),
                        !.data[r2.item] = add_elem(set_type(@, "DATA_DERIVED"), windhd, t)],
                    c, k, t, windhd)

\* lines 1215-1216: the units of the relative wind angle and the head wind
WindRelative(r1, c, k, t, windrel, windhd) ==
    IF r1.item = NULLDATA THEN [store |-> r1.store, returned |-> TRUE]
    ELSE WindHead(r1.item,
                  _get_and_possibly_create_data(r1.store, PathWindhd, "DataTimeseries"),
                  c, k, t, windrel, windhd)

WindWalk(S, c, k) ==
    IF k > Len(S.data[c.data_windE].samples) THEN [store |-> S, returned |-> FALSE]
    ELSE LET t == S.data[c.data_windE].samples[k][1]
             wE == S.data[c.data_windE].samples[k][2]
             wN == get_data_at_time(S.data[c.data_windN], t).value
             winddir == angle360(WindDir(wE, wN))
             windspd == ISqrt(wE * wE + wN * wN)
             S1 == [S EXCEPT !.data[c.data_winddir] = add_elem(@, winddir, t),
                             !.data[c.data_windspd] = add_elem(@, windspd, t)]
             yaw == angle360(get_data_at_time(S.data[c.data_yaw], t).value)
             winddir_inv == angle360(winddir - 180)
             \* acos(cos(a) cos(b) + sin(a) sin(b)) is the angle between a and b
             windrel == IF Cos90(winddir_inv - yaw) = 1 THEN 0
                        ELSE IF Cos90(winddir_inv - yaw) = -1 THEN 180 ELSE 90
             windhd == (-Cos90(windrel)) * windspd
         IN  WindRelative(_get_and_possibly_create_data(S1, PathWindrel, "DataTimeseries"),
                          c, k, t, windrel, windhd)

\* line 1260 without the bound on the roll
SteadyFlight_noroll(airspeed, pitch, roll, accx) ==
    airspeed > SPEED_MIN /\ fabs(pitch) < PITCH_MAX /\ fabs(accx) < ACCX_MAX

\* line 1260: the filter of the quasi-steady flight
SteadyFlight(airspeed, pitch, roll, accx) ==
    /\ airspeed > SPEED_MIN
    /\ fabs(pitch) < PITCH_MAX
    /\ fabs(roll) < ROLL_MAX
    /\ fabs(accx) < ACCX_MAX

\* lines 1238-1271, from sample k of the sink rate on; the glide ratios are
\* added to the unit c.data_glideratio
RECURSIVE SinkWalk(_, _, _)
SinkWalk(S, c, k) ==
    IF k > Len(S.data[c.data_sink].samples) THEN [store |-> S, returned |-> FALSE]
    ELSE LET t == S.data[c.data_sink].samples[k][1]
             sink == S.data[c.data_sink].samples[k][2]
             accx == get_data_at_time(S.data[c.data_accx], t).value
             data_airspeedest == _get_data_as(S, PathAirspeedest, "DataTimeseries")
             speedunit == IF c.data_airspeed # NULLDATA THEN c.data_airspeed
                          ELSE IF c.have_wind THEN data_airspeedest
                          ELSE c.data_gspeed
             airspeed == get_data_at_time(S.data[speedunit], t).value
             pitch == get_data_at_time(S.data[c.data_pitch], t).value
             roll == get_data_at_time(S.data[c.data_roll], t).value
         IN  IF sink <= 0 THEN SinkWalk(S, c, k + 1)
             ELSE IF speedunit = NULLDATA THEN [store |-> S, returned |-> TRUE]
             ELSE IF SteadyFlight(airspeed, pitch, roll, accx)
             THEN SinkWalk([S EXCEPT !.data[c.data_glideratio] =
                                add_elem(@, <<airspeed, sink, fabs(roll)>>, t)],
                           c, k + 1)
             ELSE SinkWalk(S, c, k + 1)

\* DataTimeseries::moving_average(out, window): at every sample the samples
\* within half the window of it, whose mean the value is
moving_average(d, out, window) ==
    [out EXCEPT !.samples =
        [i \in DOMAIN d.samples |->
            <<d.samples[i][1],
              SelectSeq(d.samples,
                  LAMBDA x : 2 * fabs(x[1] - d.samples[i][1]) <= window)>>]]

\* lines 1273-1274: the moving average of the glide ratio
glideperf_vel_average(r5, c) ==
    IF r5.item = NULLDATA THEN [store |-> r5.store, outcome |-> "refused"]
    ELSE [store |-> [r5.store EXCEPT !.data[r5.item] =
                        moving_average(r5.store.data[c.data_glideratio], @, 5)],
          outcome |-> "done"]

\* lines 1238-1274 with the loop done: sunk is what it gave
glideperf_vel_sunk(sunk, c) ==
    IF sunk.returned THEN [store |-> sunk.store, outcome |-> "absent"]
    ELSE glideperf_vel_average(
             _get_and_possibly_create_data(sunk.store, PathGlideratio5, "DataTimeseries"), c)

\* lines 1238-1271: the glide ratio of every sample of the sink rate
glideperf_vel_sink(S, c) == glideperf_vel_sunk(SinkWalk(S, c, 1), c)

\* lines 1192-1232 done: wind is what the loop gave
glideperf_vel_windloop(wind, c) ==
    IF wind.returned THEN [store |-> wind.store, outcome |-> "refused"]
    ELSE glideperf_vel_sink(wind.store, c)

\* lines 1187-1191; rw is what the MAVSYSTEM_DATA_ITEM_OR_RETURN lines gave
glideperf_vel_winditems(rw, c) ==
    IF ~rw.ok THEN [store |-> rw.store, outcome |-> "refused"]
    ELSE glideperf_vel_windloop(
             WindWalk(ForItems(rw.store,
                          [u \in ItemSet(rw.items) |->
                              set_type(rw.store.data[u], "DATA_DERIVED")]),
                      c @@ [have_wind |-> TRUE, data_winddir |-> rw.items[1],
                            data_windspd |-> rw.items[2]],
                      1),
             c @@ [have_wind |-> TRUE, data_winddir |-> rw.items[1],
                   data_windspd |-> rw.items[2]])

\* lines 1187-1232: the wind, where VWE, VWN and Yaw were found
glideperf_vel_wind(S, c) ==
    IF c.data_windE # NULLDATA /\ c.data_windN # NULLDATA /\ c.data_yaw # NULLDATA
    THEN glideperf_vel_winditems(
             DataItemsOrReturn(S, << <<PathWinddir, "DataTimeseries">>,
                                     <<PathWindspd, "DataTimeseries">> >>, <<>>), c)
    ELSE glideperf_vel_sink(S, c @@ [have_wind |-> FALSE, data_winddir |-> NULLDATA,
                                     data_windspd |-> NULLDATA])

\* lines 1182-1184: the unit of the glide ratio, cleared
glideperf_vel_glideratio(rr, c) ==
    IF rr.item = NULLDATA THEN [store |-> rr.store, outcome |-> "refused"]
    ELSE glideperf_vel_wind(
             [rr.store EXCEPT !.data[rr.item] = clear(set_type(@, "DATA_DERIVED"))],
             c @@ [data_glideratio |-> rr.item])

\* lines 1110-1177: the ground speed and the sink rate, and the return where
\* an input is missing
glideperf_vel_sources(S, c) ==
    LET gps_try == get_data(S, Sub(<<"GPS", "Spd">>))
        data_gspeed == IF c.fuse THEN c.data_newspeed
                       ELSE IF gps_try # NULLDATA /\ Spread(S.data[gps_try]) > SPEED_MIN
                       THEN gps_try ELSE NULLDATA
        sink_try == get_data(S, Word({"VD"}))
        data_sink == IF sink_try # NULLDATA THEN sink_try
                     ELSE get_data(S, Sub(<<"GPS", "VZ">>))
    IN  IF ~(/\ (c.data_airspeed # NULLDATA \/ data_gspeed # NULLDATA)
             /\ c.data_pitch # NULLDATA /\ c.data_roll # NULLDATA
             /\ data_sink # NULLDATA /\ c.data_accx # NULLDATA)
        THEN [store |-> S, outcome |-> "absent"]
        ELSE glideperf_vel_glideratio(
                 _get_and_possibly_create_data(S, PathGlideratio, "DataTimeseries"),
                 c @@ [data_gspeed |-> data_gspeed, data_sink |-> data_sink])

\* lines 1095-1106: the ground speed fused of NKF1/VE and NKF1/VN
glideperf_vel_fuse(rg, c) ==
    IF rg.item = NULLDATA THEN [store |-> rg.store, outcome |-> "refused"]
    ELSE glideperf_vel_sources(
             [rg.store EXCEPT !.data[rg.item] =
                 set_type([@ EXCEPT !.samples =
                              GroundspeedWalk(rg.store.data[c.data_try1],
                                              rg.store.data[c.data_try2], 1, @)],
                          "DATA_DERIVED")],
             c @@ [fuse |-> TRUE, data_newspeed |-> rg.item])

\* lines 1090-1107: the ground speed where NKF1/VE and NKF1/VN were found
glideperf_vel_groundspeed(S, c) ==
    IF c.data_try1 # NULLDATA /\ c.data_try2 # NULLDATA
    THEN glideperf_vel_fuse(
             _get_and_possibly_create_data(S, PathGroundspeed, "DataTimeseries"), c)
    ELSE glideperf_vel_sources(S, c @@ [fuse |-> FALSE, data_newspeed |-> NULLDATA])

\* the pass; outcome tells where it returned.  c names the units found so far.
_postprocess_glideperf_vel(S) ==
    LET speed_try == get_data(S, Word({"TrueSpeed"}))
    IN  glideperf_vel_groundspeed(S,
            [data_roll |-> get_data(S, Word({"roll", "Roll"})),
             data_accx |-> get_data(S, Word({"AccX"})),
             data_pitch |-> get_data(S, Word({"pitch", "Pitch"})),
             data_windE |-> get_data(S, Word({"VWE"})),
             data_windN |-> get_data(S, Word({"VWN"})),
             data_yaw |-> get_data(S, Word({"Yaw"})),
             data_airspeed |-> IF speed_try # NULLDATA
                                    /\ Spread(S.data[speed_try]) > SPEED_MIN
                               THEN speed_try ELSE NULLDATA,
             data_try1 |-> get_data(S, Sub(<<"NKF1", "VE">>)),
             data_try2 |-> get_data(S, Sub(<<"NKF1", "VN">>))])

(***************************************************************************)
(* postprocess, lines 1520-1527: the five passes in their order.  The log  *)
(* tells of every pass where it returned and the paths it touched.         *)
(***************************************************************************)
\* the paths whose unit the stores S and T do not agree on
Touched(S, T) ==
    {p \in (DOMAIN S.flat) \cup (DOMAIN T.flat) :
        \/ p \notin DOMAIN S.flat
        \/ p \notin DOMAIN T.flat
        \/ S.data[S.flat[p]] # T.data[T.flat[p]]}

PassNames == <<"bad_timing", "flightbook", "powerstats", "glideperf_pos", "glideperf_vel">>

RunPass(name, S, hdist_pre0) ==
    CASE name = "bad_timing"    -> _postprocess_bad_timing(S)
      [] name = "flightbook"    -> _postprocess_flightbook(S)
      [] name = "powerstats"    -> _postprocess_powerstats(S)
      [] name = "glideperf_pos" -> _postprocess_glideperf_pos(S, hdist_pre0)
      [] name = "glideperf_vel" -> _postprocess_glideperf_vel(S)

\* the passes of order from pass i on
RECURSIVE RunPasses(_, _, _, _, _)
RunPasses(order, i, S, hdist_pre0, log) ==
    IF i > Len(order) THEN [store |-> S, log |-> log]
    ELSE LET Then(r) ==
                 RunPasses(order, i + 1, r.store, hdist_pre0,
                           Append(log, [pass |-> order[i], outcome |-> r.outcome,
                                        touched |-> Touched(S, r.store)]))
         IN  Then(RunPass(order[i], S, hdist_pre0))

\* postprocess that stops at the first pass that returns early
RECURSIVE RunPasses_stop(_, _, _, _, _)
RunPasses_stop(order, i, S, hdist_pre0, log) ==
    IF i > Len(order) THEN [store |-> S, log |-> log]
    ELSE LET Logged(r) == Append(log, [pass |-> order[i], outcome |-> r.outcome,
                                        touched |-> Touched(S, r.store)])
             Then(r) ==
                 IF r.outcome # "done" THEN [store |-> r.store, log |-> Logged(r)]
                 ELSE RunPasses_stop(order, i + 1, r.store, hdist_pre0, Logged(r))
         IN  Then(RunPass(order[i], S, hdist_pre0))

postprocess_stop(S, hdist_pre0) == RunPasses_stop(PassNames, 1, S, hdist_pre0, <<>>)

postprocess(S, hdist_pre0) == RunPasses(PassNames, 1, S, hdist_pre0, <<>>)

(***************************************************************************)
(* merge_in, lines 1622-1639, and the copy constructor, lines 372-395.     *)
(* The other System is the sequence of its units in the order of its flat  *)
(* map.                                                                    *)
(***************************************************************************)
\* the loop of lines 1625-1633 that returns at the first unit that fails
RECURSIVE AddUnits_abort(_, _, _, _, _)
AddUnits_abort(S, other, i, added, log) ==
    IF i > Len(other) THEN [store |-> S, added |-> added, log |-> log]
    ELSE LET Logged(r) == Append(log, [path |-> get_fullname(other[i]), ok |-> r.ret])
             Then(r) ==
                 IF ~r.ret THEN [store |-> r.store, added |-> FALSE, log |-> Logged(r)]
                 ELSE AddUnits_abort(r.store, other, i + 1, TRUE, Logged(r))
         IN  Then(_add_data(S, other[i]))

\* lines 1625-1633 (and 390-394) from unit i of other on; log tells of every unit
\* handed to _add_data what it returned
RECURSIVE AddUnits(_, _, _, _, _)
AddUnits(S, other, i, added, log) ==
    IF i > Len(other) THEN [store |-> S, added |-> added, log |-> log]
    ELSE LET Then(r) ==
                 AddUnits(r.store, other, i + 1, added \/ r.ret,
                          Append(log, [path |-> get_fullname(other[i]), ok |-> r.ret]))
         IN  Then(_add_data(S, other[i]))

\* lines 1634-1637 with the two calls in the other order
merge_in_timefirst(S, raw, guess, other, hdist_pre0) ==
    LET offset == determine_offset(raw, guess)
        Processed(m, p) ==
            [store |-> p.store, ret |-> TRUE, added |-> TRUE, log |-> m.log,
             passes |-> p.log, offset |-> <<offset>>]
        Added(m) ==
            IF m.added
            THEN Processed(m, postprocess([m.store EXCEPT !.data =
                                              apply_offset(m.store.flat, @, offset)],
                                          hdist_pre0))
            ELSE [store |-> m.store, ret |-> TRUE, added |-> FALSE, log |-> m.log,
                  passes |-> <<>>, offset |-> <<>>]
    IN  Added(AddUnits(S, other, 1, FALSE, <<>>))

\* merge_in(other) of a System with the reference pairs raw and the guess;
\* offset is <<the offset determined>>, and <<>> where none was
merge_in(S, raw, guess, other, hdist_pre0) ==
    LET offset == determine_offset(raw, guess)
        Processed(m, p) ==
            [store |-> [p.store EXCEPT !.data = apply_offset(p.store.flat, @, offset)],
             ret |-> TRUE, added |-> TRUE, log |-> m.log, passes |-> p.log,
             offset |-> <<offset>>]
        Added(m) ==
            IF m.added THEN Processed(m, postprocess(m.store, hdist_pre0))
            ELSE [store |-> m.store, ret |-> TRUE, added |-> FALSE, log |-> m.log,
                  passes |-> <<>>, offset |-> <<>>]
    IN  Added(AddUnits(S, other, 1, FALSE, <<>>))

\* the units of a System as the sequence its flat map gives
RECURSIVE UnitsOf(_, _)
UnitsOf(S, paths) ==
    IF paths = {} THEN <<>>
    ELSE LET p == CHOOSE x \in paths : TRUE
         IN  <<S.data[S.flat[p]]>> \o UnitsOf(S, paths \ {p})

EmptyStore == [flat |-> EmptyMap, top |-> EmptyMap, groups |-> EmptyMap, data |-> EmptyMap]

\* MavSystem(other): the store of the copy
CopyOf(other) == AddUnits(EmptyStore, other, 1, FALSE, <<>>).store

\* MavSystem(other), lines 372-395: the fields of the copy.  The copy is built
\* in the address space of other: its units are new objects beside those of
\* other, held by a flat map and groups of its own.
MavSystem_copy(other) ==
    [id |-> other.id,
     mavtype |-> other.mavtype,
     aptype |-> other.aptype,
     has_been_armed |-> other.has_been_armed,
     _time |-> other._time,
     _time_min |-> other._time_min,
     _time_max |-> other._time_max,
     _time_offset_raw |-> other._time_offset_raw,
     _time_offset_usec |-> other._time_offset_usec,
     _time_offset_guess_usec |-> other._time_offset_guess_usec,
     _time_valid |-> other._time_valid,
     _have_time_update |-> FALSE,
     _mavlink_summary |-> other._mavlink_summary,
     store |-> AddUnits([EmptyStore EXCEPT !.data = other.store.data],
                        UnitsOf(other.store, DOMAIN other.store.flat), 1, FALSE, <<>>).store]

(***************************************************************************)
(* Inputs and bounds                                                       *)
(***************************************************************************)
\* reference pairs kept at most (update_time_offset is not offered beyond)
MaxPairs == 2

\* the net shifts shift_time is offered to arrive at, as values of the
\* guess-offset: none, one second forward, one second back
ShiftGuesses == {0, USEC_PER_SEC, UINT64 - USEC_PER_SEC}

\* paths: one without a group, one in a group of the top level, one below a
\* chain of two groups, and one beside the child group of that chain
HierPaths == {<<"x">>, <<"a", "b">>, <<"d", "e", "f">>, <<"d", "g">>}

Kinds == {"DataTimeseries", "DataEvent"}

NoSamples == <<>>

SomeSamples == <<<<1, 1>>>>

\* a unit of another System, by value
SrcUnit(fullname, kind, type, samples, epoch) ==
    [name |-> fullname[Len(fullname)],
     parent |-> SubSeq(fullname, 1, Len(fullname) - 1),
     kind |-> kind, type |-> type, periodic |-> FALSE, samples |-> samples,
     epoch_datastart |-> epoch]

HierSrcUnits ==
    {SrcUnit(p, k, "DATA_RAW", s, 0) :
        p \in HierPaths, k \in Kinds, s \in {NoSamples, SomeSamples}}

OffsetSrcUnits ==
    {SrcUnit(<<"a", "b">>, "DataTimeseries", "DATA_RAW", SomeSamples, 0),
     SrcUnit(<<"d", "g">>, "DataTimeseries", "DATA_DERIVED", SomeSamples, 7)}

\* reference pairs offered: the pairs of the offset example, one whose mean with
\* <<0, 1000>> is not whole, and one whose relative time exceeds its epoch
OffsetPairs == {<<0, 1000>>, <<0, 1001>>, <<10000000, 1011000000>>, <<10000000, 1000>>}

\* candidate relative times (usec): whole seconds, whose differences the doubles
\* of the code represent exactly, and one microsecond past either threshold
RelCands == {0, 5000000, 5000001, 10000000, 50000000, 100000000, 100000001}

\* candidate relative times (usec) that lie one, two and three forward
\* thresholds from 0, and one microsecond past the first
JumpCands == {0, 100000000, 100000001, 200000000, 300000000}

\* lines 65-68 and 76-80: the types and the link counters of a new System
MAVTYPE_INIT == 255

MAVAPTYPE_INIT == 255

NoTraffic ==
    [_link_throughput_bytes |-> 0, num_uninterpreted |-> 0, num_received |-> 0,
     num_interpreted |-> 0, num_error |-> 0,
     mavlink_msgids_interpreted |-> {}, mavlink_msgids_uninterpreted |-> {}]

\* the identifier the System was constructed with
SystemId == 1

\* the System as the copy constructor reads it
ThisSystem ==
    [id |-> SystemId, mavtype |-> mavtype, aptype |-> aptype,
     has_been_armed |-> has_been_armed,
     _time |-> _time, _time_min |-> _time_min, _time_max |-> _time_max,
     _time_offset_raw |-> _time_offset_raw, _time_offset_usec |-> _time_offset_usec,
     _time_offset_guess_usec |-> _time_offset_guess_usec,
     _time_valid |-> _time_valid, _have_time_update |-> _have_time_update,
     _mavlink_summary |-> _mavlink_summary, store |-> Store]

SetStore(S) ==
    /\ _data_from_path' = S.flat
    /\ mav_data_groups' = S.top
    /\ groups' = S.groups
    /\ data' = S.data

SetTime(T) ==
    /\ _time' = T._time
    /\ _time_min' = T._time_min
    /\ _time_max' = T._time_max
    /\ _time_valid' = T._time_valid
    /\ _have_time_update' = T._have_time_update

\* a series: the values given at the times given
Series(times, values) == [i \in DOMAIN times |-> <<times[i], values[i]>>]

\* samples a unit holds at most where the track operations are offered
MaxTrack == 3

\* headings: below 0, within [0, 360], its ends, above 360
HeadingCands == {-10, 0, 90, 360, 361}

TrackTimes == {0, USEC_PER_SEC, 2 * USEC_PER_SEC}

\* packets counted at most
MaxReceived == 4

\* what the caller did with a packet: the three of mavlink_parsed_e and a value
\* outside the enum
ParsedCands ==
    {"MAVLINK_INTERPRETED", "MAVLINK_UNINTERPRETED", "MAVLINK_ERROR", "MAVLINK_PARSED_END"}

\* heartbeats: a status of the enum and a value outside the enum
StatusCands == {"MAV_STATE_ACTIVE", "MAV_STATE_ENUM_END"}

BasemodeCands ==
    {{}, {"MAV_MODE_FLAG_SAFETY_ARMED", "MAV_MODE_FLAG_STABILIZE_ENABLED"},
     {"MAV_MODE_FLAG_GUIDED_ENABLED", "MAV_MODE_FLAG_MANUAL_INPUT_ENABLED"}}

\* postprocess is called while no unit holds more than MaxLen samples and no unit
\* has more than MaxSnapshots snapshots "_orig" of snapshots
MaxLen == 6

MaxSnapshots == 2

\* the path at which the timing repair files the snapshot of the unit at a path
OrigPath(path) == [path EXCEPT ![Len(path)] = @ \o "_orig"]

RECURSIVE Snapshots(_, _)
Snapshots(S, path) ==
    IF OrigPath(path) \in DOMAIN S.flat THEN 1 + Snapshots(S, OrigPath(path)) ELSE 0

Bounded(S) ==
    /\ \A u \in DOMAIN S.data : Len(S.data[u].samples) <= MaxLen
    /\ \A p \in DOMAIN S.flat : Snapshots(S, p) <= MaxSnapshots

\* altitude and throttle as track_airstate files them
FlightTimes == <<0, 1, 2, 3, 4, 5>>

AltExample == Series(FlightTimes, <<0, 0, 5, 5, 0, 0>>)

ThrottleExample == Series(FlightTimes, <<0, 0, 50, 50, 0, 0>>)

FlightSrcUnits ==
    {SrcUnit(PathAlt, "DataTimeseries", "DATA_RAW", q, 0) :
        q \in {AltExample,
               Series(FlightTimes, <<5, 5, 0, 5, 5, 1>>),
               Series(<<1, 3, 5>>, <<2, 0, 2>>)}}
    \cup {SrcUnit(PathThrottle, "DataTimeseries", "DATA_RAW", q, 0) :
        q \in {NoSamples, ThrottleExample,
               Series(FlightTimes, <<50, 50, 50, 50, 50, 50>>),
               Series(<<0, 4>>, <<0, 40>>)}}

\* battery voltage and current as track_power files them
VoltExample == Series(<<0, 10>>, <<12, 12>>)

AmpsExample == Series(<<0, 10>>, <<2, 2>>)

PowerSrcUnits ==
    {SrcUnit(PathVolt, "DataTimeseries", "DATA_RAW", q, 0) :
        q \in {VoltExample, Series(<<0, 10, 20>>, <<12, 12, 10>>), Series(<<20, 30>>, <<10, 8>>)}}
    \cup {SrcUnit(PathAmps, "DataTimeseries", "DATA_RAW", q, 0) :
        q \in {NoSamples, AmpsExample, Series(<<0, 10, 20>>, <<2, 4, 2>>),
               Series(<<0, 20>>, <<2, 6>>)}}

\* attitude, acceleration, sink rate and speeds as the log's messages file them
GlideTimes == <<0, 1, 2>>

PathRoll == <<"ATT", "Roll">>

PathPitch == <<"ATT", "Pitch">>

PathAccX == <<"IMU", "AccX">>

PathVD == <<"NKF1", "VD">>

PathTrueSpeed == <<"ARSP", "TrueSpeed">>

PathSpd == <<"GPS", "Spd">>

GlidePaths == {PathRoll, PathPitch, PathAccX, PathVD, PathTrueSpeed, PathSpd}

GlideSeries(path) ==
    CASE path = PathRoll      -> {NoSamples, Series(GlideTimes, <<10, 10, 10>>),
                                  Series(GlideTimes, <<60, 60, 60>>),
                                  Series(<<0, 2>>, <<-30, -60>>)}
      [] path = PathPitch     -> {NoSamples, Series(GlideTimes, <<0, 19, 20>>)}
      [] path = PathAccX      -> {NoSamples, Series(GlideTimes, <<0, -2, 1>>)}
      [] path = PathVD        -> {Series(GlideTimes, <<2, 0, 1>>), Series(GlideTimes, <<-1, 3, 3>>)}
      [] path = PathTrueSpeed -> {Series(GlideTimes, <<10, 4, 6>>), Series(GlideTimes, <<4, 4, 4>>)}
      [] path = PathSpd       -> {Series(GlideTimes, <<12, 12, 6>>)}

GlideSrcUnits ==
    UNION {{SrcUnit(p, "DataTimeseries", "DATA_RAW", q, 0) : q \in GlideSeries(p)} :
              p \in GlidePaths}

\* a System with a little of everything the passes read
PathPN == <<"NKF1", "PN">>

PathPE == <<"NKF1", "PE">>

PathPD == <<"NKF1", "PD">>

PathVE == <<"NKF1", "VE">>

PathVN == <<"NKF1", "VN">>

PathGyrX == <<"IMU", "GyrX">>

\* the epoch of a unit that comes from a System whose absolute time was determined
OtherEpoch == 1000

PipeSrcUnits ==
    {SrcUnit(PathAlt, "DataTimeseries", "DATA_RAW", Series(<<0, 1, 2>>, <<0, 5, 0>>), 0),
     SrcUnit(PathThrottle, "DataTimeseries", "DATA_RAW", Series(<<0>>, <<50>>), 0),
     SrcUnit(PathThrottle, "DataTimeseries", "DATA_RAW", Series(<<0>>, <<50>>), OtherEpoch),
     SrcUnit(PathVolt, "DataTimeseries", "DATA_RAW", VoltExample, 0),
     SrcUnit(PathAmps, "DataTimeseries", "DATA_RAW", Series(<<0>>, <<2>>), 0),
     SrcUnit(PathAmps, "DataTimeseries", "DATA_RAW", Series(<<0>>, <<2>>), OtherEpoch),
     SrcUnit(PathVE, "DataTimeseries", "DATA_RAW", Series(GlideTimes, <<3, 6, 0>>), 0),
     SrcUnit(PathVN, "DataTimeseries", "DATA_RAW", Series(<<0>>, <<4>>), 0)}

\* units that are expected to be periodic
TimingSrcUnits ==
    {[SrcUnit(PathGyrX, "DataTimeseries", "DATA_RAW", q, 0) EXCEPT !.periodic = TRUE] :
        q \in {Series(<<0, 1, 4>>, <<1, 2, 3>>), Series(<<0, 2, 4>>, <<1, 2, 3>>),
               Series(<<6, 7, 8, 12>>, <<4, 5, 6, 7>>)}}
    \cup {SrcUnit(PathVE, "DataTimeseries", "DATA_RAW", Series(<<0, 1, 4>>, <<3, 6, 0>>), 0)}

\* raw units of a System that is cloned: altitude, throttle (also without
\* samples) and a gyro rate with uneven time stamps
CloneSrcUnits ==
    {SrcUnit(PathAlt, "DataTimeseries", "DATA_RAW", q, 0) :
        q \in {Series(<<0, 1, 2>>, <<0, 5, 0>>), Series(<<1, 3>>, <<2, 0>>)}}
    \cup {SrcUnit(PathThrottle, "DataTimeseries", "DATA_RAW", q, 0) :
        q \in {NoSamples, Series(<<1>>, <<50>>)}}
    \cup {[SrcUnit(PathGyrX, "DataTimeseries", "DATA_RAW", q, 0) EXCEPT !.periodic = TRUE] :
        q \in {Series(<<0, 1, 4>>, <<1, 2, 3>>)}}

\* what the stack may hold where hdist_pre lies
HdistPre == {0, 7}

\* positions north, east and down as the log's NKF1 messages file them
PosSrcUnits ==
    {SrcUnit(PathPN, "DataTimeseries", "DATA_RAW", q, 0) :
        q \in {Series(GlideTimes, <<0, 3, 6>>), Series(GlideTimes, <<0, 0, 0>>)}}
    \cup {SrcUnit(PathPE, "DataTimeseries", "DATA_RAW", Series(<<0, 2>>, <<0, 8>>), 0)}
    \cup {SrcUnit(PathPD, "DataTimeseries", "DATA_RAW", q, 0) :
        q \in {NoSamples, Series(<<0>>, <<-10>>)}}

\* a log with wind estimates: the wind along an axis and the yaw a multiple of 90
PathVWE == <<"NKF2", "VWE">>

PathVWN == <<"NKF2", "VWN">>

PathYaw == <<"ATT", "Yaw">>

WindSrcUnits ==
    {SrcUnit(PathRoll, "DataTimeseries", "DATA_RAW", Series(GlideTimes, <<10, 10, 10>>), 0),
     SrcUnit(PathPitch, "DataTimeseries", "DATA_RAW", Series(GlideTimes, <<0, 5, 0>>), 0),
     SrcUnit(PathAccX, "DataTimeseries", "DATA_RAW", Series(GlideTimes, <<0, 1, 0>>), 0),
     SrcUnit(PathVD, "DataTimeseries", "DATA_RAW", Series(GlideTimes, <<2, 1, 1>>), 0),
     SrcUnit(PathVE, "DataTimeseries", "DATA_RAW", Series(GlideTimes, <<3, 6, 0>>), 0),
     SrcUnit(PathVN, "DataTimeseries", "DATA_RAW", Series(GlideTimes, <<4, 8, 5>>), 0),
     SrcUnit(PathVWE, "DataTimeseries", "DATA_RAW", Series(GlideTimes, <<0, 0, 3>>), 0),
     SrcUnit(PathVWE, "DataTimeseries", "DATA_RAW", NoSamples, 0),
     SrcUnit(PathVWN, "DataTimeseries", "DATA_RAW", Series(GlideTimes, <<4, -4, 0>>), 0),
     SrcUnit(PathYaw, "DataTimeseries", "DATA_RAW", Series(GlideTimes, <<0, 90, 270>>), 0)}

\* other Systems to merge in, each the units of its flat map in the map's order;
\* the second comes with its absolute time determined, the third files the
\* throttle as events
OtherSystems ==
    {<<SrcUnit(PathAlt, "DataTimeseries", "DATA_RAW", Series(<<0, 1, 2>>, <<0, 5, 0>>), 0),
       SrcUnit(PathThrottle, "DataTimeseries", "DATA_RAW", Series(<<0>>, <<50>>), 0)>>,
     <<SrcUnit(PathThrottle, "DataTimeseries", "DATA_RAW", Series(<<1>>, <<60>>), OtherEpoch),
       SrcUnit(PathAmps, "DataTimeseries", "DATA_RAW", Series(<<0>>, <<2>>), OtherEpoch)>>,
     <<SrcUnit(PathAlt, "DataTimeseries", "DATA_RAW", Series(<<2, 3>>, <<5, 0>>), 0),
       SrcUnit(PathThrottle, "DataEvent", "DATA_RAW", Series(<<0>>, <<"full">>), 0),
       SrcUnit(PathVolt, "DataTimeseries", "DATA_RAW", VoltExample, 0)>>,
     <<SrcUnit(PathThrottle, "DataEvent", "DATA_RAW", Series(<<0>>, <<"idle">>), 0)>>}

\* a time reference of the System itself
OwnReference == <<0, 1000>>

\* the Data objects the System still refers to; an object that a second
\* registration of its path has replaced is leaked and never reached again
Referenced(S) ==
    {S.flat[p] : p \in DOMAIN S.flat}
        \cup UNION {{S.groups[g].data[n] : n \in DOMAIN S.groups[g].data} :
                        g \in DOMAIN S.groups}

Collect(S) == [S EXCEPT !.data = [u \in Referenced(S) \cap DOMAIN S.data |-> S.data[u]]]

NoArg == <<>>

(***************************************************************************)
(* The state after construction, lines 63-86 and 285-287                   *)
(***************************************************************************)
Init ==
    /\ _data_from_path = EmptyMap
    /\ mav_data_groups = EmptyMap
    /\ groups = EmptyMap
    /\ data = EmptyMap
    /\ _time = 0
    /\ _time_min = INFINITY
    /\ _time_max = -INFINITY
    /\ _time_valid = FALSE
    /\ _have_time_update = FALSE
    /\ _time_offset_raw = <<>>
    /\ _time_offset_usec = 0
    /\ _time_offset_guess_usec = 0
    /\ mavtype = MAVTYPE_INIT
    /\ aptype = MAVAPTYPE_INIT
    /\ has_been_armed = FALSE
    /\ _mavlink_summary = NoTraffic
    /\ lastCall = [op |-> "MavSystem", arg |-> NoArg, ret |-> 0, pre |-> NoArg]

(***************************************************************************)
(* Operations                                                              *)
(***************************************************************************)
\* _data_register_hierarchy(fullname, item) with item a unit just created
Register(fullname, kind, samples) ==
    LET item == NewDataId(Store, fullname)
        created == [name |-> fullname[Len(fullname)], parent |-> NULL, kind |-> kind,
                    type |-> "DATA_RAW", periodic |-> FALSE, samples |-> samples,
                    epoch_datastart |-> 0]
        S1 == [Store EXCEPT !.data = MapPut(@, item, created)]
    IN  /\ SetStore(Collect(_data_register_hierarchy(S1, fullname, item)))
        /\ lastCall' = [op |-> "_data_register_hierarchy", arg |-> fullname, ret |-> 0,
                        pre |-> fullname \in DOMAIN _data_from_path]
        /\ UNCHANGED <<timeVars, offsetVars, trackVars>>

\* _del_data(src) with src the unit found at fullname
DelData(fullname) ==
    /\ fullname \in DOMAIN _data_from_path
    /\ SetStore(_del_data(Store, _data_from_path[fullname]))
    /\ lastCall' = [op |-> "_del_data", arg |-> fullname, ret |-> 0, pre |-> NoArg]
    /\ UNCHANGED <<timeVars, offsetVars, trackVars>>

\* _add_data(src); pre tells which of its three cases it met
AddData(src) ==
    LET r == _add_data(Store, src)
        mydata == _get_data(Store, get_fullname(src))
    IN  /\ SetStore(r.store)
        /\ lastCall' = [op |-> "_add_data", arg |-> src, ret |-> r.ret,
                        pre |-> IF mydata = NULLDATA THEN "absent"
                                ELSE IF is_present(data[mydata]) THEN "present"
                                ELSE "empty"]
        /\ UNCHANGED <<timeVars, offsetVars, trackVars>>

UpdateRelTime(nowtime_relative_usec, allowjumps) ==
    LET r == update_rel_time(Time, nowtime_relative_usec, allowjumps)
    IN  /\ SetTime(r.time)
        /\ lastCall' = [op |-> "update_rel_time",
                        arg |-> [rel |-> nowtime_relative_usec, epoch |-> 0,
                                 allowjumps |-> allowjumps],
                        ret |-> r.ret,
                        pre |-> [_time |-> _time, _time_valid |-> _time_valid]]
        /\ UNCHANGED <<hierVars, offsetVars, trackVars>>

\* update_time_offset, lines 1653-1659; ret is what the inner update_rel_time returned
UpdateTimeOffset(nowtime_relative_usec, epoch_usec, allowjumps) ==
    LET r == update_rel_time(Time, nowtime_relative_usec, allowjumps)
    IN  /\ Len(_time_offset_raw) < MaxPairs
        /\ SetTime(r.time)
        /\ _time_offset_raw' =
               update_time_offset_raw(_time_offset_raw, nowtime_relative_usec, epoch_usec)
        /\ lastCall' = [op |-> "update_time_offset",
                        arg |-> [rel |-> nowtime_relative_usec, epoch |-> epoch_usec,
                                 allowjumps |-> allowjumps],
                        ret |-> r.ret,
                        pre |-> [_time |-> _time, _time_valid |-> _time_valid]]
        /\ UNCHANGED <<hierVars, _time_offset_usec, _time_offset_guess_usec, trackVars>>

\* shift_time(delay), lines 1662-1669, delay in whole seconds
ShiftTime(delay) ==
    LET udelay == delay * USEC_PER_SEC
        guess == shift_time_guess(_time_offset_guess_usec, udelay)
    IN  /\ guess \in ShiftGuesses
        /\ _time_offset_raw' = shift_time_raw(_time_offset_raw, udelay)
        /\ _time_offset_guess_usec' = guess
        /\ lastCall' = [op |-> "shift_time", arg |-> udelay, ret |-> 0,
                        pre |-> [raw |-> _time_offset_raw, guess |-> _time_offset_guess_usec]]
        /\ UNCHANGED <<hierVars, timeVars, _time_offset_usec, trackVars>>

\* determine_absolute_time, lines 1671-1693
DetermineAbsoluteTime ==
    LET offset == determine_offset(_time_offset_raw, _time_offset_guess_usec)
    IN  /\ _time_offset_usec' = offset
        /\ data' = apply_offset(_data_from_path, data, offset)
        /\ lastCall' = [op |-> "determine_absolute_time", arg |-> NoArg, ret |-> 0,
                        pre |-> {data[u].epoch_datastart : u \in DOMAIN data}]
        /\ UNCHANGED <<_data_from_path, mav_data_groups, groups, timeVars,
                       _time_offset_raw, _time_offset_guess_usec, trackVars>>

\* the process has not been aborted
Running == ~(lastCall.op = "update_time_offset_guess" /\ lastCall.ret = "aborted")

\* update_time_offset_guess(relative, absolute), lines 1641-1644
UpdateTimeOffsetGuess(nowtime_relative_usec, epoch_usec, build) ==
    LET Then(r) ==
            /\ _time_offset_guess_usec' = r.guess
            /\ lastCall' = [op |-> "update_time_offset_guess",
                            arg |-> [rel |-> nowtime_relative_usec, epoch |-> epoch_usec],
                            ret |-> r.ret,
                            pre |-> [guess |-> _time_offset_guess_usec]]
    IN  /\ Running
        /\ Then(update_time_offset_guess(_time_offset_guess_usec, nowtime_relative_usec,
                                         epoch_usec, build))
        /\ UNCHANGED <<hierVars, timeVars, _time_offset_raw, _time_offset_usec, trackVars>>

\* the track operations are offered while no unit holds MaxTrack samples
Tracking(S) == \A u \in DOMAIN S.data : Len(S.data[u].samples) < MaxTrack

\* track_paths(lat, lon, alt_rel_m, alt_msl_m, heading_deg), lines 624-638
TrackPaths(lat, lon, alt_rel_m, alt_msl_m, heading_deg) ==
    LET Then(r) ==
            /\ SetStore(r.store)
            /\ lastCall' = [op |-> "track_paths",
                            arg |-> [lat |-> lat, lon |-> lon, alt_rel_m |-> alt_rel_m,
                                     alt_msl_m |-> alt_msl_m, heading_deg |-> heading_deg],
                            ret |-> r.outcome, pre |-> Store]
    IN  /\ Tracking(Store)
        /\ Then(track_paths(Store, _time, lat, lon, alt_rel_m, alt_msl_m, heading_deg))
        /\ UNCHANGED <<timeVars, offsetVars, trackVars>>

\* track_system(stype, status, atype, basemode, custmode), lines 402-529
TrackSystem(stype, status, atype, basemode, custmode) ==
    LET Then(r) ==
            /\ SetStore(r.store)
            /\ mavtype' = r.sys.mavtype
            /\ aptype' = r.sys.aptype
            /\ has_been_armed' = r.sys.has_been_armed
            /\ lastCall' = [op |-> "track_system",
                            arg |-> [stype |-> stype, status |-> status, atype |-> atype,
                                     basemode |-> basemode, custmode |-> custmode],
                            ret |-> r.outcome, pre |-> Store]
    IN  /\ Tracking(Store)
        /\ Then(track_system(Store, _time,
                             [mavtype |-> mavtype, aptype |-> aptype,
                              has_been_armed |-> has_been_armed],
                             stype, status, atype, basemode, custmode))
        /\ UNCHANGED <<timeVars, offsetVars, _mavlink_summary>>

\* track_mavlink(data_length_bytes, msgid, whatwasdone), lines 566-594
TrackMavlink(data_length_bytes, msgid, whatwasdone) ==
    LET Then(r) ==
            /\ SetStore(r.store)
            /\ _mavlink_summary' = r.summary
            /\ lastCall' = [op |-> "track_mavlink",
                            arg |-> [data_length_bytes |-> data_length_bytes,
                                     msgid |-> msgid, whatwasdone |-> whatwasdone],
                            ret |-> r.outcome, pre |-> Store]
    IN  /\ Tracking(Store)
        /\ _mavlink_summary.num_received < MaxReceived
        /\ Then(track_mavlink(Store, _time, _have_time_update, _mavlink_summary,
                              data_length_bytes, msgid, whatwasdone))
        /\ UNCHANGED <<timeVars, offsetVars, mavtype, aptype, has_been_armed>>

\* postprocess(); ret is the log of the passes
Postprocess(hdist_pre0) ==
    LET Processed(r) ==
            /\ SetStore(Collect(r.store))
            /\ lastCall' = [op |-> "postprocess", arg |-> hdist_pre0, ret |-> r.log,
                            pre |-> NoArg]
    IN  /\ Bounded(Store)
        /\ Processed(postprocess(Store, hdist_pre0))
        /\ UNCHANGED <<timeVars, offsetVars, trackVars>>

\* merge_in(other) with other the units given; ret is what it returned, whether it
\* added, the log of the units and the log of the passes; pre is the store it met
MergeUnits(op, other, hdist_pre0) ==
    LET Merged(r) ==
            /\ SetStore(Collect(r.store))
            /\ _time_offset_usec' = IF r.added THEN r.offset[1] ELSE _time_offset_usec
            /\ lastCall' = [op |-> op, arg |-> other,
                            ret |-> [ret |-> r.ret, added |-> r.added, log |-> r.log,
                                     passes |-> r.passes],
                            pre |-> Store]
    IN  /\ Bounded(Store)
        /\ Merged(merge_in(Store, _time_offset_raw, _time_offset_guess_usec, other,
                           hdist_pre0))
        /\ UNCHANGED <<timeVars, _time_offset_raw, _time_offset_guess_usec, trackVars>>

MergeIn(other, hdist_pre0) == MergeUnits("merge_in", other, hdist_pre0)

\* MavSystem(this) and then merge_in(the copy)
CloneMergeBack(hdist_pre0) ==
    LET MergeBack(clone) ==
            MergeUnits("clone_merge_in", UnitsOf(clone, DOMAIN clone.flat), hdist_pre0)
    IN  /\ _data_from_path # EmptyMap
        /\ MergeBack(CopyOf(UnitsOf(Store, DOMAIN _data_from_path)))

(***************************************************************************)
(* Specifications                                                          *)
(***************************************************************************)
\* the hierarchy store
Next ==
    \/ \E p \in HierPaths, s \in {NoSamples, SomeSamples} : Register(p, "DataTimeseries", s)
    \/ \E p \in HierPaths : DelData(p)
    \/ \E src \in HierSrcUnits : AddData(src)

Spec == Init /\ [][Next]_vars

\* the relative-time state machine
NextTime ==
    \/ \E c \in RelCands, aj \in BOOLEAN : UpdateRelTime(c, aj)
    \/ \E c \in RelCands, e \in {0, 1000}, aj \in BOOLEAN : UpdateTimeOffset(c, e, aj)

SpecTime == Init /\ [][NextTime]_vars

\* forward jumps
NextJump ==
    \/ \E c \in JumpCands, aj \in BOOLEAN : UpdateRelTime(c, aj)
    \/ \E c \in JumpCands, aj \in BOOLEAN : UpdateTimeOffset(c, 0, aj)

SpecJump == Init /\ [][NextJump]_vars

\* the guess of the offset
GuessCands == {0, USEC_PER_SEC, 2 * USEC_PER_SEC, 5 * USEC_PER_SEC}

NextGuess ==
    \/ \E rel \in GuessCands, epoch \in GuessCands, build \in Builds :
           UpdateTimeOffsetGuess(rel, epoch, build)
    \/ Running /\ DetermineAbsoluteTime
    \/ Running /\ \E c \in GuessCands : UpdateRelTime(c, TRUE)

SpecGuess == Init /\ [][NextGuess]_vars

\* the flight path
NextPaths ==
    \/ \E lat \in {47}, lon \in {8}, alt \in {5}, heading \in HeadingCands :
           TrackPaths(lat, lon, alt, alt + 400, heading)
    \/ \E c \in TrackTimes : UpdateRelTime(c, TRUE)
    \/ \E p \in {<<"airstate", "heading">>} : Register(p, "DataEvent", NoSamples)
    \/ \E p \in {<<"airstate", "heading">>} : DelData(p)

SpecPaths == Init /\ [][NextPaths]_vars

\* the heartbeats
NextSystem ==
    \/ \E stype \in {1}, status \in StatusCands, atype \in {3},
          basemode \in BasemodeCands, custmode \in {0} :
           TrackSystem(stype, status, atype, basemode, custmode)
    \/ \E c \in {USEC_PER_SEC} : UpdateRelTime(c, TRUE)
    \/ \E p \in {<<"system", "custom_mode">>} : Register(p, "DataEvent", NoSamples)
    \/ \E p \in {<<"system", "custom_mode">>} : DelData(p)

SpecSystem == Init /\ [][NextSystem]_vars

\* the link accounting
NextLink ==
    \/ \E len \in {17, 64}, msgid \in {30}, whatwasdone \in ParsedCands :
           TrackMavlink(len, msgid, whatwasdone)
    \/ \E c \in {USEC_PER_SEC, 200 * USEC_PER_SEC}, aj \in BOOLEAN :
           UpdateRelTime(c, aj)

SpecLink == Init /\ [][NextLink]_vars

\* reference pairs, shifts and the absolute offset
NextOffset ==
    \/ \E pair \in OffsetPairs : UpdateTimeOffset(pair[1], pair[2], TRUE)
    \/ \E d \in {-1, 1} : ShiftTime(d)
    \/ DetermineAbsoluteTime
    \/ \E src \in OffsetSrcUnits : AddData(src)

SpecOffset == Init /\ [][NextOffset]_vars

\* the flight-book
NextFlight ==
    \/ \E src \in FlightSrcUnits : AddData(src)
    \/ \E p \in {PathAlt, PathThrottle} : DelData(p)
    \/ \E h \in {0} : Postprocess(h)

SpecFlight == Init /\ [][NextFlight]_vars

\* the power statistics
NextPower ==
    \/ \E src \in PowerSrcUnits : AddData(src)
    \/ \E p \in {PathVolt, PathAmps} : DelData(p)
    \/ \E h \in {0} : Postprocess(h)

SpecPower == Init /\ [][NextPower]_vars

\* the glide ratio
NextGlide ==
    \/ \E src \in GlideSrcUnits : AddData(src)
    \/ \E h \in {0} : Postprocess(h)

SpecGlide == Init /\ [][NextGlide]_vars

\* the pipeline as a whole
NextPipe ==
    \/ \E src \in PipeSrcUnits : AddData(src)
    \/ \E p \in {PathThrottle, PathAmps, PathVN} : DelData(p)
    \/ \E h \in {0} : Postprocess(h)
    \/ DetermineAbsoluteTime

SpecPipe == Init /\ [][NextPipe]_vars

\* the travelled distance
NextPos ==
    \/ \E src \in PosSrcUnits : AddData(src)
    \/ \E p \in {PathPD} : DelData(p)
    \/ \E h \in HdistPre : Postprocess(h)

SpecPos == Init /\ [][NextPos]_vars

\* the glide ratio with wind estimates
NextWind ==
    \/ \E src \in WindSrcUnits : AddData(src)
    \/ \E p \in {PathYaw} : DelData(p)
    \/ \E h \in {0} : Postprocess(h)

SpecWind == Init /\ [][NextWind]_vars

\* merging Systems
NextMerge ==
    \/ \E other \in OtherSystems : MergeIn(other, 0)
    \/ CloneMergeBack(0)
    \/ \E p \in {PathThrottle} : DelData(p)
    \/ UpdateTimeOffset(OwnReference[1], OwnReference[2], TRUE)

SpecMerge == Init /\ [][NextMerge]_vars

\* the timing repair
NextTiming ==
    \/ \E src \in TimingSrcUnits : AddData(src)
    \/ \E p \in {PathGyrX} : DelData(p)
    \/ \E h \in {0} : Postprocess(h)

SpecTiming == Init /\ [][NextTiming]_vars

\* cloning a System and merging the clone back
NextClone ==
    \/ \E src \in CloneSrcUnits : AddData(src)
    \/ \E p \in {PathThrottle, PathGyrX} : DelData(p)
    \/ \E h \in {0} : Postprocess(h)
    \/ CloneMergeBack(0)

SpecClone == Init /\ [][NextClone]_vars

(***************************************************************************)
(* Properties                                                              *)
(***************************************************************************)
RECURSIVE WalkGroups(_, _)
\* the groups met by walking the tree G of DataGroup objects down from a group map
WalkGroups(G, gmap) ==
    UNION {{gmap[n]} \cup WalkGroups(G, G[gmap[n]].groups) : n \in DOMAIN gmap}

\* the places <<group, name>> of the tree that hold a unit
TreeSlots(G, top) ==
    UNION {{<<g, n>> : n \in DOMAIN G[g].data} : g \in WalkGroups(G, top)}

TreeUnits(G, top) == {G[s[1]].data[s[2]] : s \in TreeSlots(G, top)}

FlatUnits(flat) == {flat[p] : p \in DOMAIN flat}

\* C1: after any sequence of _data_register_hierarchy and _del_data calls
\* (single-segment paths and re-registration included) the units reached by
\* walking the group tree are exactly the units of the flat map, each once.
C1_TreeEqualsFlatMap ==
    /\ TreeUnits(groups, mav_data_groups) = FlatUnits(_data_from_path)
    /\ Cardinality(TreeSlots(groups, mav_data_groups))
           = Cardinality(TreeUnits(groups, mav_data_groups))
    /\ Cardinality(DOMAIN _data_from_path) = Cardinality(FlatUnits(_data_from_path))

NoEmptyGroup ==
    \A g \in WalkGroups(groups, mav_data_groups) :
        DOMAIN groups[g].groups # {} \/ DOMAIN groups[g].data # {}

\* the removal of the unit at fullname pruned exactly the groups it emptied
PrunedExactly(fullname) ==
    LET src == _data_from_path[fullname]
        before == WalkGroups(groups, mav_data_groups)
        after == WalkGroups(groups', mav_data_groups')
        pruned == before \ after
        othersIn(g) == (DOMAIN groups[g].data)
                           \ (IF g = data[src].parent THEN {data[src].name} ELSE {})
    IN  /\ after \subseteq before
        /\ \A g \in pruned :
              /\ othersIn(g) = {}
              /\ \A n \in DOMAIN groups[g].groups : groups[g].groups[n] \in pruned
              /\ g \notin DOMAIN groups'
        /\ \A g \in after :
              /\ DOMAIN groups'[g].groups # {} \/ DOMAIN groups'[g].data # {}
              /\ groups'[g].parent = groups[g].parent
              /\ groups'[g].groupname = groups[g].groupname
              /\ groups'[g].data = [n \in othersIn(g) |-> groups[g].data[n]]
              /\ groups'[g].groups =
                     [n \in {m \in DOMAIN groups[g].groups : groups[g].groups[m] \in after}
                         |-> groups[g].groups[n]]
        /\ mav_data_groups' =
               [n \in {m \in DOMAIN mav_data_groups : mav_data_groups[m] \in after}
                   |-> mav_data_groups[n]]

\* C2: after _data_unregister_hierarchy no group without child groups and units
\* is left in the tree; every group the removal emptied is detached, recursively
\* upward, and every other group stays attached with its contents unchanged.
C2_EmptyGroupsPruned ==
    /\ []NoEmptyGroup
    /\ [][(lastCall'.op = "_del_data" /\ lastCall'.arg \in DOMAIN _data_from_path)
              => PrunedExactly(lastCall'.arg)]_vars

\* a removal that pruned a chain of two groups up to the top level, another
\* group of the top level staying
C2_Witness ==
    /\ lastCall.op = "_del_data"
    /\ lastCall.arg = <<"d", "e", "f">>
    /\ "d" \notin DOMAIN mav_data_groups
    /\ "a" \in DOMAIN mav_data_groups

\* the unit u hangs in the tree at the place fullname names
InTree(G, top, fullname, u) ==
    LET g == SubSeq(fullname, 1, Len(fullname) - 1)
        n == fullname[Len(fullname)]
    IN  /\ g \in WalkGroups(G, top)
        /\ n \in DOMAIN G[g].data
        /\ G[g].data[n] = u

\* the unit u holds what src holds
DeepCopyOf(u, src) ==
    /\ u.name = src.name
    /\ u.kind = src.kind
    /\ u.type = src.type
    /\ u.samples = src.samples
    /\ u.epoch_datastart = src.epoch_datastart

\* C10: _add_data(u): with no unit at u's path the System afterwards holds a copy
\* of u there, in the flat map and in the tree; with a non-empty unit there its
\* merge_in(u) decides the result and no unit is replaced; with an empty unit
\* there that unit is removed and a copy of u registered in its place.
C10_AddDataCases ==
    [][lastCall'.op = "_add_data" =>
          LET src == lastCall'.arg
              fullname == get_fullname(src)
              mydata == _get_data(Store, fullname)
              now == IF fullname \in DOMAIN _data_from_path'
                     THEN _data_from_path'[fullname] ELSE NULLDATA
              copied == /\ now \in DOMAIN data'
                        /\ DeepCopyOf(data'[now], src)
                        /\ InTree(groups', mav_data_groups', fullname, now)
                        /\ lastCall'.ret = TRUE
          IN  IF mydata = NULLDATA
              THEN copied /\ now \notin DOMAIN data
              ELSE IF is_present(data[mydata])
                   THEN /\ lastCall'.ret = data_merge_in(data[mydata], src).ok
                        /\ data'[mydata] = data_merge_in(data[mydata], src).unit
                        /\ UNCHANGED <<_data_from_path, mav_data_groups, groups>>
                   ELSE /\ copied
                        /\ FlatUnits(_data_from_path') \ {now} = FlatUnits(_data_from_path) \ {mydata}
                        /\ TreeUnits(groups', mav_data_groups') \ {now}
                               = TreeUnits(groups, mav_data_groups) \ {mydata}]_vars

\* C3: with the time valid and allowjumps false, update_rel_time rejects exactly
\* when candidate - current < -5 s (returning -1) or > 100 s (returning 1); a
\* rejection changes none of current, min, max and the have-time-update flag; a
\* difference of exactly -5 s or +100 s is accepted and returns 0.
C3_JumpRejectedExactlyBeyondThresholds ==
    [][(lastCall'.op = "update_rel_time" /\ _time_valid /\ ~lastCall'.arg.allowjumps) =>
          LET diff == lastCall'.arg.rel - _time
              ret == lastCall'.ret
          IN  /\ ret \in {-1, 0, 1}
              /\ ret = -1 <=> diff < -5000000
              /\ ret = 1 <=> diff > 100000000
              /\ ret # 0 => UNCHANGED <<_time, _time_min, _time_max, _have_time_update>>
              /\ ret = 0 => _time' = lastCall'.arg.rel
              /\ diff \in {-5000000, 100000000} => ret = 0 /\ _time' = lastCall'.arg.rel]_vars

\* a candidate one microsecond past +100 s was rejected and the time stayed
C3_Witness ==
    /\ lastCall.op = "update_rel_time"
    /\ ~lastCall.arg.allowjumps
    /\ lastCall.pre._time_valid
    /\ lastCall.pre._time = 0
    /\ lastCall.arg.rel = 100000001
    /\ lastCall.ret = 1
    /\ _time = 0

\* C4: with allowjumps true update_rel_time accepts every candidate: it returns
\* 0, the current time becomes the candidate and the min time is at most the
\* candidate; at 100 s the candidate 50 s without allowjumps is rejected and the
\* current time stays 100 s.
C4_AllowJumpsAcceptsAll ==
    [][lastCall'.op = "update_rel_time" =>
          /\ lastCall'.arg.allowjumps =>
                /\ lastCall'.ret = 0
                /\ _time' = lastCall'.arg.rel
                /\ _time_min' <= lastCall'.arg.rel
          /\ (/\ ~lastCall'.arg.allowjumps
              /\ _time_valid
              /\ _time = 100000000
              /\ lastCall'.arg.rel = 50000000) =>
                /\ lastCall'.ret # 0
                /\ _time' = 100000000]_vars

\* at 100 s the candidate 50 s came with allowjumps and was taken
C4_Witness ==
    /\ lastCall.op = "update_rel_time"
    /\ lastCall.arg.allowjumps
    /\ lastCall.pre._time_valid
    /\ lastCall.pre._time = 100000000
    /\ lastCall.arg.rel = 50000000
    /\ lastCall.ret = 0
    /\ _time = 50000000
    /\ _time_min <= 50000000

\* C5: update_time_offset without allowjumps, with a relative time the jump check
\* rejects, changes nothing: current, min and max time and the reference pairs
\* are as before, whatever the absolute time.
C5_RejectedOffsetChangesNothing ==
    [][(/\ lastCall'.op = "update_time_offset"
        /\ ~lastCall'.arg.allowjumps
        /\ lastCall'.ret # 0) =>
          UNCHANGED <<_time, _time_min, _time_max, _time_offset_raw>>]_vars

\* C6: the first update_rel_time of a fresh System is accepted whatever the
\* candidate and allowjumps: it returns 0, the time becomes valid, and current,
\* min and max time equal the candidate; the time never becomes invalid again.
C6_FirstUpdateTrusted ==
    [][/\ (lastCall'.op = "update_rel_time" /\ ~_time_valid) =>
              /\ lastCall'.ret = 0
              /\ _time_valid'
              /\ _time' = lastCall'.arg.rel
              /\ _time_min' = lastCall'.arg.rel
              /\ _time_max' = lastCall'.arg.rel
       /\ _time_valid => _time_valid']_vars

\* the first call came with a candidate more than 100 s from the initial 0
C6_Witness ==
    /\ lastCall.op = "update_rel_time"
    /\ ~lastCall.pre._time_valid
    /\ ~lastCall.arg.allowjumps
    /\ lastCall.arg.rel = 100000001
    /\ lastCall.ret = 0
    /\ _time_valid
    /\ _time = 100000001
    /\ _time_min = 100000001
    /\ _time_max = 100000001

\* m is the mean of the integers ds rounded to the nearest integer, halves upward:
\* -n <= 2 * (sum of ds - n * m) < n, the sum taken over the deviations
IsRoundedMean(m, ds) ==
    LET n == Len(ds)
        dev == SumSeq([i \in DOMAIN ds |-> ds[i] - m])
    IN  /\ \E i \in DOMAIN ds : ds[i] <= m
        /\ \E i \in DOMAIN ds : m <= ds[i]
        /\ -(n \div 2) <= dev
        /\ dev <= ((n + 1) \div 2) - 1

\* a relative time of a pair as the integer it stands for: shift_time may have
\* taken it below zero, where the unsigned value is UINT64 more
SignedRel(rel) == IF 2 * rel >= UINT64 THEN rel - UINT64 ELSE rel

\* absolute - relative of every pair, as integers
PairDiffs(raw) == [i \in DOMAIN raw |-> raw[i][2] - SignedRel(raw[i][1])]

\* no pair has a relative time above its absolute time
OrderedPairs(raw) == \A i \in DOMAIN raw : SignedRel(raw[i][1]) <= raw[i][2]

OffsetExample == <<<<0, 1000>>, <<10000000, 1011000000>>>>

\* C7: determine_absolute_time sets the offset to the mean of
\* (absolute - relative) over all pairs, rounded to the nearest microsecond, when
\* there is a pair, and to the guess-offset when there is none; the pairs
\* (0, 1000), (10000000, 1011000000) give 500500500.
C7_OffsetIsRoundedMean ==
    lastCall.op = "determine_absolute_time" =>
        /\ _time_offset_raw = <<>> => _time_offset_usec = _time_offset_guess_usec
        /\ _time_offset_raw # <<>> =>
               IsRoundedMean(_time_offset_usec, PairDiffs(_time_offset_raw))
        /\ _time_offset_raw = OffsetExample => _time_offset_usec = 500500500

\* The offset is the rounded mean whenever no pair has a relative time above its
\* absolute time: C7 fails by the unsigned difference of line 1678 alone.
OffsetIsRoundedMeanOfOrderedPairs ==
    lastCall.op = "determine_absolute_time" =>
        /\ _time_offset_raw = <<>> => _time_offset_usec = _time_offset_guess_usec
        /\ (_time_offset_raw # <<>> /\ OrderedPairs(_time_offset_raw)) =>
               IsRoundedMean(_time_offset_usec, PairDiffs(_time_offset_raw))
        /\ _time_offset_raw = OffsetExample => _time_offset_usec = 500500500

\* the offset was determined from the two pairs of the example
OffsetExampleDetermined ==
    /\ lastCall.op = "determine_absolute_time"
    /\ _time_offset_raw = OffsetExample
    /\ _time_offset_usec = 500500500

\* C8: right after determine_absolute_time every unit of the flat map, raw or
\* derived, has the System's absolute offset as its epoch baseline.
C8_AllUnitsShareOffset ==
    lastCall.op = "determine_absolute_time" =>
        \A p \in DOMAIN _data_from_path :
            data[_data_from_path[p]].epoch_datastart = _time_offset_usec

\* a raw and a derived unit, of different baselines before, both unlike the
\* offset, now share it
C8_Witness ==
    /\ lastCall.op = "determine_absolute_time"
    /\ Cardinality(lastCall.pre) = 2
    /\ _time_offset_usec \notin lastCall.pre
    /\ {data[_data_from_path[p]].type : p \in DOMAIN _data_from_path}
           = {"DATA_RAW", "DATA_DERIVED"}
    /\ \A p \in DOMAIN _data_from_path :
           data[_data_from_path[p]].epoch_datastart = _time_offset_usec

\* shift_time(d) then shift_time(-d) restores the pairs and the guess-offset
ShiftReversible(udelay) ==
    /\ shift_time_raw(_time_offset_raw', -udelay) = _time_offset_raw
    /\ shift_time_guess(_time_offset_guess_usec', -udelay) = _time_offset_guess_usec

\* the offset determine_absolute_time would compute is udelay larger after the
\* shift than before it
ShiftMovesOffset(udelay) ==
    determine_offset(_time_offset_raw', _time_offset_guess_usec')
        = (determine_offset(_time_offset_raw, _time_offset_guess_usec) + udelay) % UINT64

\* C9: shift_time(delay) moves every pair and the guess-offset by
\* delay*1e6, so that the offset a following determine_absolute_time computes is
\* exactly delay*1e6 larger, with or without pairs, and shift_time(-delay) after
\* it restores pairs and guess-offset.
C9_ShiftMovesOffsetAlways ==
    [][lastCall'.op = "shift_time" =>
          /\ ShiftMovesOffset(lastCall'.arg)
          /\ ShiftReversible(lastCall'.arg)]_vars

\* The offset moves by delay*1e6 whenever no pair has a relative time above its
\* absolute time, before the shift or after it, and the round trip restores
\* pairs and guess-offset always: C9 fails by the unsigned difference of line
\* 1678 alone.
ShiftMovesOffsetOfOrderedPairs ==
    [][lastCall'.op = "shift_time" =>
          /\ (OrderedPairs(_time_offset_raw) /\ OrderedPairs(_time_offset_raw')) =>
                 ShiftMovesOffset(lastCall'.arg)
          /\ ShiftReversible(lastCall'.arg)]_vars

\* a shift by +1 s of the two pairs of the example: the relative time 0 went
\* below zero, both pairs stay ordered, and the offset is one second larger
OffsetExampleShifted ==
    /\ lastCall.op = "shift_time"
    /\ lastCall.arg = USEC_PER_SEC
    /\ lastCall.pre.raw = OffsetExample
    /\ _time_offset_raw[1][1] = UINT64 - USEC_PER_SEC
    /\ OrderedPairs(_time_offset_raw)
    /\ determine_offset(_time_offset_raw, _time_offset_guess_usec) = 501500500

(***************************************************************************)
(* The postprocessing pipeline                                             *)
(***************************************************************************)
\* the samples of the unit at a path of the store S (none where it is absent)
SamplesAt(S, path) == IF path \in DOMAIN S.flat THEN S.data[S.flat[path]].samples ELSE <<>>

\* what the pass of that name did in the postprocess() just made
PassOutcome(name) ==
    LET i == CHOOSE j \in DOMAIN PassNames : PassNames[j] = name
    IN  lastCall.ret[i].outcome

\* the i-th smallest element of a set of numbers
Nth(set, i) == CHOOSE x \in set : Cardinality({y \in set : y < x}) = i - 1

\* altitude sample k is one the aircraft flies at: the throttle has a value at
\* its time, the altitude is above 1 and that throttle above 20
IsFlying(alt, throttle, k) ==
    /\ k \in DOMAIN alt
    /\ throttle # <<>>
    /\ alt[k][2] > 1
    /\ get_data_at_time([samples |-> throttle], alt[k][1]).value > 20

Takeoffs(alt, throttle) ==
    {k \in DOMAIN alt : IsFlying(alt, throttle, k) /\ ~IsFlying(alt, throttle, k - 1)}

Landings(alt, throttle) ==
    {k \in DOMAIN alt : ~IsFlying(alt, throttle, k) /\ IsFlying(alt, throttle, k - 1)}

\* the time in the air that ends with the landing at sample l
FlightEndingAt(alt, throttle, l) ==
    LET before == {k \in Takeoffs(alt, throttle) : k < l}
        k == CHOOSE x \in before : \A y \in before : y <= x
    IN  alt[l][1] - alt[k][1]

FlightbookIs(S, alt, throttle) ==
    LET ups == Takeoffs(alt, throttle)
        downs == Landings(alt, throttle)
        flights == [i \in 1..Cardinality(downs) |->
                       FlightEndingAt(alt, throttle, Nth(downs, i))]
        edges == ups \cup downs
    IN  /\ SamplesAt(S, <<"flightbook", "number flights">>) = <<<<Cardinality(ups)>>>>
        /\ SamplesAt(S, <<"flightbook", "total flight time">>) = <<<<SumSeq(flights)>>>>
        /\ SamplesAt(S, <<"flightbook", "first takeoff">>)
               = <<<<IF ups = {} THEN 0 ELSE alt[Nth(ups, 1)][1]>>>>
        /\ SamplesAt(S, <<"flightbook", "last landing">>)
               = <<<<IF downs = {} THEN 0 ELSE alt[Nth(downs, Cardinality(downs))][1]>>>>
        /\ SamplesAt(S, <<"flightbook", "takeoff_landing">>)
               = [i \in 1..Cardinality(edges) |->
                     <<alt[Nth(edges, i)][1],
                       IF Nth(edges, i) \in ups THEN "takeoff" ELSE "landing">>]

FlightbookOfTwoFlights ==
    /\ lastCall.op = "postprocess"
    /\ PassOutcome("flightbook") = "done"
    /\ SamplesAt(Store, <<"flightbook", "number flights">>) = <<<<2>>>>
    /\ Cardinality(Landings(SamplesAt(Store, PathAlt), SamplesAt(Store, PathThrottle))) = 1

\* the trapezoid between samples j - 1 and j of the series q
Trapezoid(q, j) == ((q[j][1] - q[j - 1][1]) * (q[j][2] + q[j - 1][2])) \div 2

\* 1/3600 of the sum of the trapezoids up to sample k, at every sample k of q
Cumulated(q) ==
    [k \in DOMAIN q |->
        <<q[k][1], <<SumSeq([j \in 1..(k - 1) |-> Trapezoid(q, j + 1)]), SEC_PER_HOUR>>>>]

\* volt times the interpolated current at every voltage sample
PowerOf(volt, amps) ==
    IF amps = <<>> THEN <<>>
    ELSE [k \in DOMAIN volt |->
             <<volt[k][1], volt[k][2] * get_data_at_time([samples |-> amps], volt[k][1]).value>>]

\* the value of the last sample of the unit at a path
LastValueAt(S, path) == SamplesAt(S, path)[Len(SamplesAt(S, path))][2]

\* C19: where the power pass ran (voltage and current of equal epoch), the power
\* is V x I at each voltage sample, and the cumulated charge (consumption) at
\* sample k is 1/3600 of the sum of the trapezoids (t_j - t_{j-1})(f_j + f_{j-1})/2
\* up to k over the current (power) samples, 0 at the first; 12 V and 2 A at
\* t = 0 and t = 10 end at 20/3600 Ah and 240/3600 Wh.
C19_PowerIsTrapezoidSum ==
    (lastCall.op = "postprocess" /\ PassOutcome("powerstats") = "done")
        => LET volt == SamplesAt(Store, PathVolt)
               amps == SamplesAt(Store, PathAmps)
           IN  /\ SamplesAt(Store, <<"power", "power">>) = PowerOf(volt, amps)
               /\ SamplesAt(Store, <<"power", "cum. charge">>) = Cumulated(amps)
               /\ SamplesAt(Store, <<"power", "cum. consumption">>)
                      = Cumulated(PowerOf(volt, amps))
               /\ (volt = VoltExample /\ amps = AmpsExample)
                      => /\ LastValueAt(Store, <<"power", "cum. charge">>)
                                = <<20, SEC_PER_HOUR>>
                         /\ LastValueAt(Store, <<"power", "cum. consumption">>)
                                = <<240, SEC_PER_HOUR>>

\* the power statistics of the example
C19_Witness ==
    /\ lastCall.op = "postprocess"
    /\ PassOutcome("powerstats") = "done"
    /\ SamplesAt(Store, PathVolt) = VoltExample
    /\ SamplesAt(Store, PathAmps) = AmpsExample
    /\ LastValueAt(Store, <<"power", "cum. charge">>) = <<20, SEC_PER_HOUR>>

\* power statistics of a current that varies, read between its samples
PowerOfVaryingCurrent ==
    /\ lastCall.op = "postprocess"
    /\ PassOutcome("powerstats") = "done"
    /\ Len(SamplesAt(Store, PathVolt)) = 3
    /\ SamplesAt(Store, PathAmps) = Series(<<0, 20>>, <<2, 6>>)
    /\ LastValueAt(Store, <<"power", "cum. consumption">>)[1] > 0

\* the values the series q has at time t: one where it has samples, else none
ValuesAt(q, t) == IF q = <<>> THEN {} ELSE {get_data_at_time([samples |-> q], t).value}

\* the airspeed the velocity-based pass reads in a System without wind estimate:
\* the airspeed sensor's where it varies by more than 5, else the ground speed
AirspeedSeries(S) ==
    IF Spread([samples |-> SamplesAt(S, PathTrueSpeed)]) > SPEED_MIN
    THEN SamplesAt(S, PathTrueSpeed)
    ELSE SamplesAt(S, PathSpd)

\* the sink-rate sample at time t may contribute to the glide ratio
MayContribute(S, t) ==
    /\ \E k \in DOMAIN SamplesAt(S, PathVD) :
           SamplesAt(S, PathVD)[k][1] = t /\ SamplesAt(S, PathVD)[k][2] > 0
    /\ \E v \in ValuesAt(AirspeedSeries(S), t) : v > SPEED_MIN
    /\ \E v \in ValuesAt(SamplesAt(S, PathPitch), t) : fabs(v) < PITCH_MAX
    /\ \E v \in ValuesAt(SamplesAt(S, PathRoll), t) : fabs(v) < ROLL_MAX
    /\ \E v \in ValuesAt(SamplesAt(S, PathAccX), t) : fabs(v) < ACCX_MAX

GlideRatioFiltered(S) ==
    \A i \in DOMAIN SamplesAt(S, PathGlideratio) :
        MayContribute(S, SamplesAt(S, PathGlideratio)[i][1])

\* C20: after a postprocess() whose velocity-based pass ran, every sample of glideperf/glide ratio is at the time
\* of a sink-rate sample with sink > 0, airspeed > 5, |pitch| < 20, |roll| < 45
\* and |acceleration| < 2 at that time, each of them a value its series supplies.
C20_GlideRatioOnlyFromSteadyFlight ==
    (lastCall.op = "postprocess" /\ PassOutcome("glideperf_vel") = "done")
        => GlideRatioFiltered(Store)

\* the same where the roll, pitch and acceleration series all hold samples
GlideRatioFilteredWhereSupplied ==
    (/\ lastCall.op = "postprocess"
     /\ PassOutcome("glideperf_vel") = "done"
     /\ SamplesAt(Store, PathRoll) # <<>>
     /\ SamplesAt(Store, PathPitch) # <<>>
     /\ SamplesAt(Store, PathAccX) # <<>>)
        => GlideRatioFiltered(Store)

\* a sample of roll 60 degrees that did not contribute while another sample did
RollSixtyLeftOut ==
    /\ lastCall.op = "postprocess"
    /\ PassOutcome("glideperf_vel") = "done"
    /\ SamplesAt(Store, PathRoll) = Series(<<0, 2>>, <<-30, -60>>)
    /\ \E i \in DOMAIN SamplesAt(Store, PathGlideratio) :
           SamplesAt(Store, PathGlideratio)[i][1] = 0
    /\ \E k \in DOMAIN SamplesAt(Store, PathVD) :
           /\ SamplesAt(Store, PathVD)[k] = <<2, 1>>
           /\ \A i \in DOMAIN SamplesAt(Store, PathGlideratio) :
                  SamplesAt(Store, PathGlideratio)[i][1] # 2

\* a glide ratio computed with a roll of 0 that no sample of the roll series gave
GlideRatioWithoutRoll ==
    /\ lastCall.op = "postprocess"
    /\ PassOutcome("glideperf_vel") = "done"
    /\ SamplesAt(Store, PathRoll) = <<>>
    /\ SamplesAt(Store, PathGlideratio) # <<>>

\* the log of the postprocess() just made names the five passes in their order
AllPassesInOrder ==
    /\ Len(lastCall.ret) = 5
    /\ lastCall.ret[1].pass = "bad_timing"
    /\ lastCall.ret[2].pass = "flightbook"
    /\ lastCall.ret[3].pass = "powerstats"
    /\ lastCall.ret[4].pass = "glideperf_pos"
    /\ lastCall.ret[5].pass = "glideperf_vel"

\* pass i returned early for an absent input or for unsynced inputs
ReturnedEarly(i) == lastCall.ret[i].outcome \in {"absent", "unsynced"}

\* C16 as stated: postprocess() invokes the five passes in their fixed order in
\* every call, and a pass that returns early for an absent input or for inputs of
\* different epochs has changed no unit.
C16_EarlyReturnChangesNothing ==
    lastCall.op = "postprocess"
        => /\ AllPassesInOrder
           /\ \A i \in DOMAIN lastCall.ret : ReturnedEarly(i) => lastCall.ret[i].touched = {}

\* C16 amended: postprocess() invokes the five passes in their fixed order in
\* every call; a timing, flight-book, power or position pass that returns early
\* has changed no unit, and the velocity-based pass that returns early has
\* changed no unit outside glideperf/.
C16_EarlyReturnChangesNothingButGlideperf ==
    lastCall.op = "postprocess"
        => /\ AllPassesInOrder
           /\ \A i \in DOMAIN lastCall.ret :
                  ReturnedEarly(i)
                      => IF lastCall.ret[i].pass = "glideperf_vel"
                         THEN \A p \in lastCall.ret[i].touched : p[1] = "glideperf"
                         ELSE lastCall.ret[i].touched = {}

\* a call in which the flight-book pass returned for unsynced inputs, the power
\* pass after it ran, and the velocity-based pass returned for an absent input
\* with the ground speed written
C16_Witness ==
    /\ lastCall.op = "postprocess"
    /\ PassOutcome("flightbook") = "unsynced"
    /\ PassOutcome("powerstats") = "done"
    /\ lastCall.ret[3].touched # {}
    /\ PassOutcome("glideperf_pos") = "absent"
    /\ PassOutcome("glideperf_vel") = "absent"
    /\ lastCall.ret[5].touched = {PathGroundspeed}

\* the paths of the derived units of a store
DerivedPaths(S) == {p \in DOMAIN S.flat : S.data[S.flat[p]].type = "DATA_DERIVED"}

\* the System that holds the units of S that are not derived, and nothing else
RawCopy(S) ==
    CopyOf(UnitsOf(S, (DOMAIN S.flat) \ DerivedPaths(S)))

\* what one postprocess() makes of the raw units of S alone
Recomputed(S, hdist_pre0) == postprocess(RawCopy(S), hdist_pre0).store

\* the derived units at the paths given hold what this run computes from the raw
\* units, and nothing where it computes nothing
FreshAt(S, paths, hdist_pre0) ==
    \A p \in paths : SamplesAt(S, p) = SamplesAt(Recomputed(S, hdist_pre0), p)

\* C17: after any postprocess() every derived unit holds exactly what this run
\* computes from the raw units, nothing of an earlier run, also where the pass
\* that owns it was skipped for a missing input or aborted for unsynced epochs.
C17_NoValuesOfEarlierRuns ==
    lastCall.op = "postprocess" => FreshAt(Store, DerivedPaths(Store), lastCall.arg)

FlightbookPaths == {FlightbookItems[i][1] : i \in DOMAIN FlightbookItems}

PowerPaths == {PowerItems[i][1] : i \in DOMAIN PowerItems}

\* the flight-book and power units are fresh after a run in which their pass ran
FreshWherePassRan ==
    lastCall.op = "postprocess"
        => /\ PassOutcome("flightbook") = "done"
                  => FreshAt(Store, FlightbookPaths, lastCall.arg)
           /\ PassOutcome("powerstats") = "done"
                  => FreshAt(Store, PowerPaths, lastCall.arg)

\* a flight-book left over from an earlier run by a pass that was skipped
StaleFlightbook ==
    /\ lastCall.op = "postprocess"
    /\ PassOutcome("flightbook") = "absent"
    /\ SamplesAt(Store, <<"flightbook", "number flights">>) = <<<<1>>>>

\* power units left over from an earlier run by a pass that was aborted
StalePower ==
    /\ lastCall.op = "postprocess"
    /\ PassOutcome("powerstats") = "unsynced"
    /\ SamplesAt(Store, <<"power", "power">>) # <<>>

\* the paths of the snapshots the timing repair has filed: those next to a unit
\* of the same name without "_orig"
SnapshotPaths(S) == {p \in DOMAIN S.flat : \E q \in DOMAIN S.flat : p = OrigPath(q)}

\* a further postprocess() leaves the paths of S and the samples of its derived
\* units and snapshots as they are
Idempotent(S, hdist_pre0) ==
    LET T == postprocess(S, hdist_pre0).store
    IN  /\ DOMAIN T.flat = DOMAIN S.flat
        /\ \A p \in DerivedPaths(S) \cup SnapshotPaths(S) : SamplesAt(T, p) = SamplesAt(S, p)

\* C14: a postprocess() that follows a postprocess() with nothing in between
\* leaves the set of unit paths and the samples of every derived unit and of
\* every "_orig" snapshot as the first call left them.
C14_PostprocessTwiceIsOnce ==
    lastCall.op = "postprocess" => \A h \in HdistPre : Idempotent(Store, h)

\* a travelled distance that a second call has appended to
DistanceAppended ==
    /\ lastCall.op = "postprocess"
    /\ Len(SamplesAt(Store, PathDist)) = 2 * (Len(SamplesAt(Store, PathPN)) - 1)
    /\ Len(SamplesAt(Store, PathPN)) = 3

\* a travelled distance that starts at what the stack held
DistanceStartsAnywhere ==
    /\ lastCall.op = "postprocess"
    /\ lastCall.arg = 7
    /\ SamplesAt(Store, PathPN) = Series(GlideTimes, <<0, 0, 0>>)
    /\ SamplesAt(Store, PathDist) = <<<<1, 11>>, <<2, 15>>>>

\* a snapshot of a snapshot, filed by the second of two calls
SnapshotOfSnapshot ==
    /\ lastCall.op = "postprocess"
    /\ OrigPath(OrigPath(PathGyrX)) \in DOMAIN _data_from_path
    /\ ~has_bad_timestamps(data[_data_from_path[PathGyrX]])

WindPaths == {PathWinddir, PathWindspd, PathWindrel, PathWindhd, PathAirspeedest}

\* the derived units the passes that ran in the postprocess() just made have
\* written (the ground speed is written wherever NKF1/VE and NKF1/VN are found)
WrittenPaths(S) ==
    DerivedPaths(S) \cap
        ((IF PassOutcome("flightbook") = "done" THEN FlightbookPaths ELSE {})
         \cup (IF PassOutcome("powerstats") = "done" THEN PowerPaths ELSE {})
         \cup (IF PassOutcome("glideperf_pos") = "done" THEN {PathDist} ELSE {})
         \cup (IF PathVE \in DOMAIN S.flat /\ PathVN \in DOMAIN S.flat
               THEN {PathGroundspeed} ELSE {})
         \cup (IF PassOutcome("glideperf_vel") = "done"
               THEN {PathGlideratio} \cup
                    (IF {PathVWE, PathVWN, PathYaw} \subseteq DOMAIN S.flat
                     THEN WindPaths ELSE {})
               ELSE {}))

\* C15: after any postprocess() every derived unit a pass has written in that
\* call holds the samples this call produced from the raw units and no others.
C15_WrittenUnitsHoldThisCallOnly ==
    lastCall.op = "postprocess" => FreshAt(Store, WrittenPaths(Store), lastCall.arg)

\* the glide ratio, which the pass clears, holds the samples of this call only
GlideRatioIsCleared ==
    (lastCall.op = "postprocess" /\ PassOutcome("glideperf_vel") = "done")
        => FreshAt(Store, {PathGlideratio}, lastCall.arg)

\* wind units that hold the samples of two calls
WindAppended ==
    /\ lastCall.op = "postprocess"
    /\ PassOutcome("glideperf_vel") = "done"
    /\ SamplesAt(Store, PathWinddir) = <<<<0, 180>>, <<1, 0>>, <<2, 270>>>>
                                         \o <<<<0, 180>>, <<1, 0>>, <<2, 270>>>>
    /\ Len(SamplesAt(Store, PathAirspeedest)) = 6
    /\ Len(SamplesAt(Store, PathGroundspeed)) = 6
    /\ Len(SamplesAt(Store, PathGlideratio)) <= 3

\* the wind units after one call
WindOnce ==
    /\ lastCall.op = "postprocess"
    /\ SamplesAt(Store, PathWinddir) = <<<<0, 180>>, <<1, 0>>, <<2, 270>>>>
    /\ SamplesAt(Store, PathWindspd) = <<<<0, 4>>, <<1, 4>>, <<2, 3>>>>
    /\ SamplesAt(Store, PathWindrel) = <<<<0, 0>>, <<1, 90>>, <<2, 180>>>>
    /\ SamplesAt(Store, PathWindhd) = <<<<0, -4>>, <<1, 0>>, <<2, 3>>>>
    /\ SamplesAt(Store, PathAirspeedest) = <<<<0, 1>>, <<1, 10>>, <<2, 8>>>>

(***************************************************************************)
(* Merging                                                                 *)
(***************************************************************************)
IsMerge == lastCall.op \in {"merge_in", "clone_merge_in"}

\* the unit at a path of a store, NULL where there is none
UnitAt(S, path) == IF path \in DOMAIN S.flat THEN S.data[S.flat[path]] ELSE NULL

\* unit i of the System merged in could not be merged: the System held a unit
\* with samples and of another representation at its path
Incompatible(i) ==
    LET mine == UnitAt(lastCall.pre, get_fullname(lastCall.arg[i]))
    IN  mine # NULL /\ mine.samples # <<>> /\ mine.kind # lastCall.arg[i].kind

\* C11: merge_in hands every unit of other to _add_data, in order, whatever the
\* units before it returned; a unit that fails is one of an incompatible
\* representation and leaves the System's own unit at its path as it was, every
\* other unit is held at its path afterwards (a raw one with all its samples);
\* and merge_in returns true whenever a unit was copied or merged.
C11_FailedUnitSkippedOthersMerged ==
    IsMerge
        => /\ Len(lastCall.ret.log) = Len(lastCall.arg)
           /\ \A i \in DOMAIN lastCall.arg :
                  /\ lastCall.ret.log[i].path = get_fullname(lastCall.arg[i])
                  /\ lastCall.ret.log[i].ok = ~Incompatible(i)
                  /\ Incompatible(i)
                         => LET mine == UnitAt(lastCall.pre, lastCall.ret.log[i].path)
                                now == UnitAt(Store, lastCall.ret.log[i].path)
                            IN  now # NULL /\ now.kind = mine.kind
                                    /\ now.samples = mine.samples
                  /\ ~Incompatible(i)
                         => LET now == UnitAt(Store, lastCall.ret.log[i].path)
                            IN  /\ now # NULL
                                /\ lastCall.arg[i].type = "DATA_RAW"
                                       => \A k \in DOMAIN lastCall.arg[i].samples :
                                              \E n \in DOMAIN now.samples :
                                                  now.samples[n] = lastCall.arg[i].samples[k]
           /\ lastCall.ret.added = (\E i \in DOMAIN lastCall.ret.log : lastCall.ret.log[i].ok)
           /\ lastCall.ret.added => lastCall.ret.ret

\* a merge whose second unit failed and whose third was copied, reported as success
C11_Witness ==
    /\ lastCall.op = "merge_in"
    /\ Len(lastCall.arg) = 3
    /\ lastCall.ret.log[1].ok
    /\ ~lastCall.ret.log[2].ok
    /\ lastCall.ret.log[3].ok
    /\ PathVolt \notin DOMAIN lastCall.pre.flat
    /\ PathVolt \in DOMAIN _data_from_path
    /\ lastCall.ret.ret

\* a merge none of whose units could be merged
MergeOfNothing ==
    /\ lastCall.op = "merge_in"
    /\ ~lastCall.ret.added
    /\ lastCall.ret.ret
    /\ Store = lastCall.pre

\* the merge re-ran the pipeline and redetermined the absolute time
PipelineAndTimeRedone ==
    /\ Len(lastCall.ret.passes) = Len(PassNames)
    /\ _time_offset_usec = determine_offset(_time_offset_raw, _time_offset_guess_usec)
    /\ \A p \in DOMAIN _data_from_path :
           data[_data_from_path[p]].epoch_datastart = _time_offset_usec

\* a further postprocess() leaves the flight-book and the power units of S as
\* they are, and files none that S does not hold
DerivedAsPipelineGives(S, hdist_pre0) ==
    LET T == postprocess(S, hdist_pre0).store
    IN  \A p \in FlightbookPaths \cup PowerPaths :
            /\ p \in DOMAIN T.flat <=> p \in DOMAIN S.flat
            /\ SamplesAt(T, p) = SamplesAt(S, p)

\* C12: a merge_in that copied or merged a unit has re-run the pipeline and
\* redetermined the absolute time, and leaves the flight-book and power units
\* as the pipeline computes them from the merged raw units: a further
\* postprocess() changes none of them, whatever epochs the units came with.
C12_MergeLeavesDerivedUpToDate ==
    (IsMerge /\ lastCall.ret.added)
        => /\ PipelineAndTimeRedone
           /\ DerivedAsPipelineGives(Store, 0)

\* the same for a merge none of whose passes met unsynced inputs
MergeOfSyncedLeavesDerivedUpToDate ==
    (/\ IsMerge /\ lastCall.ret.added
     /\ \A i \in DOMAIN lastCall.ret.passes : lastCall.ret.passes[i].outcome # "unsynced")
        => /\ PipelineAndTimeRedone
           /\ DerivedAsPipelineGives(Store, 0)

\* the pipeline and the time are redone by every merge that added a unit
MergeRedoesPipelineAndTime == (IsMerge /\ lastCall.ret.added) => PipelineAndTimeRedone

\* a merge that returned with altitude and throttle of one epoch and no flight-book
MergedWithoutFlightbook ==
    /\ lastCall.op = "merge_in"
    /\ lastCall.ret.added
    /\ lastCall.ret.passes[2].outcome = "unsynced"
    /\ UnitAt(Store, PathAlt) # NULL
    /\ UnitAt(Store, PathThrottle) # NULL
    /\ UnitAt(Store, PathAlt).epoch_datastart = UnitAt(Store, PathThrottle).epoch_datastart
    /\ UnitAt(Store, PathThrottle).kind = "DataTimeseries"
    /\ UnitAt(Store, <<"flightbook", "number flights">>) = NULL

(***************************************************************************)
(* Cloning and merging back                                                *)
(***************************************************************************)
\* the paths the passes of the pipeline write their results to
PipelinePaths ==
    FlightbookPaths \cup PowerPaths \cup WindPaths
        \cup {PathDist, PathGroundspeed, PathGlideratio, PathGlideratio5}

\* the paths of S whose units the timing repair rewrites
RepairedPaths(S) ==
    {p \in DOMAIN S.flat : IsDataTimed(UnitAt(S, p)) /\ has_bad_timestamps(UnitAt(S, p))}

\* C13: after MavSystem(this) and merge_in(the copy) the System holds the paths
\* it held before, no more and no fewer, and every unit holds the samples it
\* held before.
C13_CloneMergeBackChangesNothing ==
    lastCall.op = "clone_merge_in"
        => /\ DOMAIN _data_from_path = DOMAIN lastCall.pre.flat
           /\ \A p \in DOMAIN lastCall.pre.flat :
                  SamplesAt(Store, p) = SamplesAt(lastCall.pre, p)

\* the paths the timing repair files the copies of the units it rewrites at
BackupPaths(S) == {OrigPath(q) : q \in RepairedPaths(S)}

\* C13 as the code has it: after MavSystem(this) and merge_in(the copy) no path
\* is gone; every unit that is no output of the pipeline, had no bad time stamps
\* and is no "_orig" copy of a unit that had, holds the samples it held before;
\* and every path that is new is an output of the pipeline or such a copy.
C13_CloneMergeBackKeepsUnitsThePipelineLeaves ==
    lastCall.op = "clone_merge_in"
        => /\ DOMAIN lastCall.pre.flat \subseteq DOMAIN _data_from_path
           /\ \A p \in DOMAIN lastCall.pre.flat \
                      (PipelinePaths \cup RepairedPaths(lastCall.pre)
                           \cup BackupPaths(lastCall.pre)) :
                  SamplesAt(Store, p) = SamplesAt(lastCall.pre, p)
           /\ \A p \in DOMAIN _data_from_path \ DOMAIN lastCall.pre.flat :
                  p \in PipelinePaths \cup BackupPaths(lastCall.pre)

\* a System of altitude and throttle that was never post-processed is cloned
\* and the clone merged back: both keep their samples, and the flight-book is new
C13_Witness ==
    /\ lastCall.op = "clone_merge_in"
    /\ lastCall.ret.added
    /\ SamplesAt(lastCall.pre, PathAlt) = <<<<0, 0>>, <<1, 5>>, <<2, 0>>>>
    /\ SamplesAt(Store, PathAlt) = <<<<0, 0>>, <<1, 5>>, <<2, 0>>>>
    /\ SamplesAt(lastCall.pre, PathThrottle) = <<<<1, 50>>>>
    /\ SamplesAt(Store, PathThrottle) = <<<<1, 50>>>>
    /\ FlightbookPaths \cap DOMAIN lastCall.pre.flat = {}
    /\ FlightbookPaths \subseteq DOMAIN _data_from_path

\* a clone merged back into a System that was post-processed before, all of
\* whose units and paths are as they were
CloneMergeBackOfPostprocessed ==
    /\ lastCall.op = "clone_merge_in"
    /\ FlightbookPaths \subseteq DOMAIN lastCall.pre.flat
    /\ DOMAIN _data_from_path = DOMAIN lastCall.pre.flat
    /\ \A p \in DOMAIN lastCall.pre.flat : SamplesAt(Store, p) = SamplesAt(lastCall.pre, p)

\* a clone merged back whose merge repaired the time stamps of a raw unit
CloneMergeBackRepairs ==
    /\ lastCall.op = "clone_merge_in"
    /\ PathGyrX \in RepairedPaths(lastCall.pre)
    /\ SamplesAt(Store, PathGyrX) # SamplesAt(lastCall.pre, PathGyrX)
    /\ OrigPath(PathGyrX) \in DOMAIN _data_from_path \ DOMAIN lastCall.pre.flat

(***************************************************************************)
(* The bounds of the relative time                                         *)
(***************************************************************************)
IsTimeUpdate(call) == call.op \in {"update_rel_time", "update_time_offset"}

\* C28: from the first update_rel_time or update_time_offset on, whether the
\* calls are accepted or rejected, min time <= current time <= max time; and in
\* every such call the min time does not increase and the max time does not
\* decrease.
C28_TimeWithinMinMax ==
    [][IsTimeUpdate(lastCall') =>
          /\ _time_min' <= _time'
          /\ _time' <= _time_max'
          /\ _time_min' <= _time_min
          /\ _time_max' >= _time_max]_vars

\* a call rejected as a backward jump with the current time strictly between
\* the min and the max time
C28_Witness ==
    /\ IsTimeUpdate(lastCall)
    /\ lastCall.ret = -1
    /\ _time_min = 0
    /\ _time = 50000000
    /\ _time_max = 100000000

\* C29: a candidate that follows a candidate c rejected as a forward jump, is
\* not below c and comes without allowjumps, is rejected as a forward jump too
\* and the current time stays; a candidate that follows it and is taken came
\* with allowjumps or lies within [current - 5 s, current + 100 s].
C29_ForwardJumpFreezesTime ==
    [][(IsTimeUpdate(lastCall) /\ lastCall.ret = 1 /\ IsTimeUpdate(lastCall')) =>
          /\ (~lastCall'.arg.allowjumps /\ lastCall'.arg.rel >= lastCall.arg.rel)
                 => lastCall'.ret = 1 /\ _time' = _time
          /\ lastCall'.ret # 0 => _time' = _time
          /\ lastCall'.ret = 0
                 => \/ lastCall'.arg.allowjumps
                    \/ /\ lastCall'.arg.rel >= _time - 5000000
                       /\ lastCall'.arg.rel <= _time + 100000000]_vars

\* with the current time 0 and nothing later ever taken, the candidate 300 s
\* was rejected as a forward jump and the time stayed 0
C29_Witness ==
    /\ lastCall.op = "update_rel_time"
    /\ ~lastCall.arg.allowjumps
    /\ lastCall.arg.rel = 300000000
    /\ lastCall.ret = 1
    /\ lastCall.pre._time = 0
    /\ _time = 0
    /\ _time_max = 0

(***************************************************************************)
(* The takeoff and landing events                                          *)
(***************************************************************************)
PathTakeoffLanding == <<"flightbook", "takeoff_landing">>

\* the entries of the events q that hold the value v
EntriesOf(q, v) == {i \in DOMAIN q : q[i][2] = v}

\* C27: in the takeoff_landing events one run of the flight-book pass wrote, the
\* entries are "takeoff", "landing", "takeoff", ... in turn; there are as many
\* takeoffs as flightbook/number flights tells and as many landings, or one
\* less, and one less exactly when the aircraft flies at the last altitude
\* sample; and the total flight time is the sum of landing minus takeoff over
\* the pairs, a last takeoff without landing adding nothing.
C27_TakeoffLandingAlternate ==
    (lastCall.op = "postprocess" /\ PassOutcome("flightbook") = "done")
        => LET q == SamplesAt(Store, PathTakeoffLanding)
               alt == SamplesAt(Store, PathAlt)
               ups == Cardinality(EntriesOf(q, "takeoff"))
               downs == Cardinality(EntriesOf(q, "landing"))
               flights == [i \in 1..downs |-> q[2 * i][1] - q[2 * i - 1][1]]
           IN  /\ \A i \in DOMAIN q :
                      q[i][2] = IF i % 2 = 1 THEN "takeoff" ELSE "landing"
               /\ SamplesAt(Store, <<"flightbook", "number flights">>) = <<<<ups>>>>
               /\ downs \in {ups, ups - 1}
               /\ downs = ups - 1
                      <=> IsFlying(alt, SamplesAt(Store, PathThrottle), Len(alt))
               /\ SamplesAt(Store, <<"flightbook", "total flight time">>)
                      = <<<<SumSeq(flights)>>>>

\* two takeoffs and one landing: the data end in the second flight, and the
\* flight time is that of the first
C27_Witness ==
    /\ lastCall.op = "postprocess"
    /\ PassOutcome("flightbook") = "done"
    /\ Len(SamplesAt(Store, PathTakeoffLanding)) = 3
    /\ SamplesAt(Store, PathTakeoffLanding)[3][2] = "takeoff"
    /\ SamplesAt(Store, <<"flightbook", "number flights">>) = <<<<2>>>>
    /\ SamplesAt(Store, <<"flightbook", "total flight time">>)
           = <<<<SamplesAt(Store, PathTakeoffLanding)[2][1]
                   - SamplesAt(Store, PathTakeoffLanding)[1][1]>>>>

(***************************************************************************)
(* The snapshots of the timing repair                                      *)
(***************************************************************************)
\* the times of the samples q
Times(q) == [i \in DOMAIN q |-> q[i][1]]

\* the raw units of S the timing repair takes for bad
BadRawPaths(S) ==
    {p \in (DOMAIN S.flat) \ DerivedPaths(S) :
        IsDataTimed(S.data[S.flat[p]]) /\ has_bad_timestamps(S.data[S.flat[p]])}

\* the repair of S as T holds it: a snapshot with the times S held beside each
\* bad raw unit, the unit itself evenly spaced, derived units as they were
RepairedWithSnapshots(S, T) ==
    /\ \A p \in BadRawPaths(S) :
           /\ OrigPath(p) \in DOMAIN T.flat
           /\ SamplesAt(T, OrigPath(p)) = SamplesAt(S, p)
           /\ SamplesAt(T, p) = make_periodic(S.data[S.flat[p]]).samples
    /\ \A p \in DerivedPaths(S) \cap DerivedPaths(T) :
           Times(SamplesAt(T, p)) = Times(SamplesAt(S, p))

\* a further postprocess() of T, the repair of S, keeps the snapshots and files
\* no other
SnapshotsKept(S, T, U) ==
    /\ \A p \in BadRawPaths(S) : SamplesAt(U, OrigPath(p)) = SamplesAt(S, p)
    /\ SnapshotPaths(U) = SnapshotPaths(T)

\* C23: a postprocess() files beside every raw unit with bad timestamps a
\* snapshot "<X>_orig" with the timestamps the unit had and spaces the unit
\* evenly, leaving derived units alone; a further postprocess() leaves the
\* snapshot with those timestamps and files no further snapshot.
C23_SnapshotKeepsOriginalTimes ==
    LET Again(T) == SnapshotsKept(Store, T, postprocess(T, 0).store)
        Then(T) == RepairedWithSnapshots(Store, T) /\ Again(T)
    IN  BadRawPaths(Store) # {} => Then(postprocess(Store, 0).store)

\* the postprocess() of a System with bad raw units and no snapshot yet files
\* the snapshots
FirstRepairFilesSnapshots ==
    LET Then(T) == RepairedWithSnapshots(Store, T)
    IN  (BadRawPaths(Store) # {} /\ SnapshotPaths(Store) = {})
            => Then(postprocess(Store, 0).store)

\* the snapshot of a gyro rate filed with the times 0, 1, 4 holds 0, 2, 4 after
\* the second of two calls
SnapshotMadePeriodic ==
    /\ lastCall.op = "postprocess"
    /\ Times(SamplesAt(Store, OrigPath(OrigPath(PathGyrX)))) = <<0, 1, 4>>
    /\ Times(SamplesAt(Store, OrigPath(PathGyrX))) = <<0, 2, 4>>
    /\ Times(SamplesAt(Store, PathGyrX)) = <<0, 2, 4>>

(***************************************************************************)
(* The active time, lines 1574-1588 and 1602-1615.  get_epoch_datastart    *)
(* and get_epoch_dataend belong to Data: the absolute time of the unit's   *)
(* first sample, its epoch baseline, and that of its last.                 *)
(***************************************************************************)
ULONG_MAX == UINT64 - 1

get_epoch_datastart(d) == d.epoch_datastart

get_epoch_dataend(d) ==
    IF IsDataTimed(d) /\ d.samples # <<>>
    THEN (d.epoch_datastart
            + (d.samples[Len(d.samples)][1] - d.samples[1][1]) * USEC_PER_SEC) % UINT64
    ELSE d.epoch_datastart

\* lines 1574-1588: tmax = 0, raised to the end of every unit of the flat map
get_time_active_end_usec(S) ==
    LET ends == {get_epoch_dataend(S.data[S.flat[p]]) : p \in DOMAIN S.flat}
    IN  CHOOSE tmax \in ends \cup {0} : \A e \in ends : ~(e > tmax)

\* lines 1602-1615: tmin = ULONG_MAX, lowered to the start of every unit
get_time_active_begin_usec(S) ==
    LET starts == {get_epoch_datastart(S.data[S.flat[p]]) : p \in DOMAIN S.flat}
    IN  CHOOSE tmin \in starts \cup {ULONG_MAX} : \A e \in starts : ~(e < tmin)

\* C21: after a time update, whatever the System holds, the begin of the active
\* time is not after its end.
C21_ActiveBeginNotAfterEnd ==
    IsTimeUpdate(lastCall)
        => get_time_active_begin_usec(Store) <= get_time_active_end_usec(Store)

\* a System without a data unit after an accepted time update: the active time
\* begins at ULONG_MAX and ends at 0
ActiveTimeOfNoData ==
    /\ IsTimeUpdate(lastCall)
    /\ lastCall.ret = 0
    /\ _time_valid
    /\ DOMAIN _data_from_path = {}
    /\ get_time_active_begin_usec(Store) = ULONG_MAX
    /\ get_time_active_end_usec(Store) = 0

\* with a data unit held, the begin of the active time is not after its end
ActiveBeginNotAfterEndOfData ==
    DOMAIN _data_from_path # {}
        => get_time_active_begin_usec(Store) <= get_time_active_end_usec(Store)

\* a System whose units span an active time
ActiveTimeOfData ==
    /\ IsTimeUpdate(lastCall)
    /\ get_time_active_begin_usec(Store) < get_time_active_end_usec(Store)

(***************************************************************************)
(* The guess of the offset                                                 *)
(***************************************************************************)
\* C24: update_time_offset_guess(relative, absolute) returns for every pair,
\* relative > absolute included, and has then either recorded the guess
\* absolute - relative or left the guess as it was.
C24_GuessNeverFatal ==
    [][lastCall'.op = "update_time_offset_guess"
           => /\ lastCall'.ret = "returned"
              /\ \/ _time_offset_guess_usec' = lastCall'.arg.epoch - lastCall'.arg.rel
                 \/ _time_offset_guess_usec' = _time_offset_guess_usec]_vars

\* the call with relative <= absolute returns, with the guess absolute - relative
\* when absolute > 0 and the guess as it was when absolute = 0
GuessOfOrderedPair ==
    [][(/\ lastCall'.op = "update_time_offset_guess"
        /\ lastCall'.arg.rel <= lastCall'.arg.epoch)
           => /\ lastCall'.ret = "returned"
              /\ _time_offset_guess_usec' =
                     IF lastCall'.arg.epoch > 0
                     THEN lastCall'.arg.epoch - lastCall'.arg.rel
                     ELSE _time_offset_guess_usec]_vars

\* the call update_time_offset_guess(2 s, 1 s) that has aborted the process
GuessAborted ==
    /\ lastCall.op = "update_time_offset_guess"
    /\ lastCall.arg = [rel |-> 2 * USEC_PER_SEC, epoch |-> USEC_PER_SEC]
    /\ lastCall.ret = "aborted"

\* the same call in a build without the assert: the guess is the difference
\* wrapped around
GuessWrapped ==
    /\ lastCall.op = "update_time_offset_guess"
    /\ lastCall.arg = [rel |-> 2 * USEC_PER_SEC, epoch |-> USEC_PER_SEC]
    /\ lastCall.ret = "returned"
    /\ _time_offset_guess_usec = UINT64 - USEC_PER_SEC

(***************************************************************************)
(* The flight path                                                         *)
(***************************************************************************)
\* the samples at path are those S held and one more with that value at time t
AppendedAt(S, path, value, t) ==
    SamplesAt(Store, path) = Append(SamplesAt(S, path), <<t, value>>)

\* the track_paths just made has appended its latitude, longitude and altitudes
PositionAppended ==
    /\ AppendedAt(lastCall.pre, PathsItems[1][1], lastCall.arg.lat, _time)
    /\ AppendedAt(lastCall.pre, PathsItems[2][1], lastCall.arg.lon, _time)
    /\ AppendedAt(lastCall.pre, PathsItems[3][1], lastCall.arg.alt_rel_m, _time)
    /\ AppendedAt(lastCall.pre, PathsItems[4][1], lastCall.arg.alt_msl_m, _time)

\* C22: a track_paths that found its five units appends latitude, longitude
\* and both altitudes, and appends the heading if it lies within [0, 360] and
\* else leaves the heading unit as it was.
C22_HeadingOutsideRangeDropped ==
    (lastCall.op = "track_paths" /\ lastCall.ret = "done")
        => /\ PositionAppended
           /\ IF 0 <= lastCall.arg.heading_deg /\ lastCall.arg.heading_deg <= 360
              THEN AppendedAt(lastCall.pre, PathsItems[5][1], lastCall.arg.heading_deg, _time)
              ELSE SamplesAt(Store, PathsItems[5][1])
                       = SamplesAt(lastCall.pre, PathsItems[5][1])

\* as the code has it: the heading is appended unless it is above 360
HeadingAbove360Dropped ==
    (lastCall.op = "track_paths" /\ lastCall.ret = "done")
        => /\ PositionAppended
           /\ IF lastCall.arg.heading_deg <= 360
              THEN AppendedAt(lastCall.pre, PathsItems[5][1], lastCall.arg.heading_deg, _time)
              ELSE SamplesAt(Store, PathsItems[5][1])
                       = SamplesAt(lastCall.pre, PathsItems[5][1])

\* a heading of -10 degrees on file
NegativeHeadingKept ==
    /\ lastCall.op = "track_paths"
    /\ lastCall.arg.heading_deg = -10
    /\ SamplesAt(Store, PathsItems[5][1]) = <<<<_time, -10>>>>

\* a heading of 361 degrees dropped beside a position that was appended
HeadingDropped ==
    /\ lastCall.op = "track_paths"
    /\ lastCall.ret = "done"
    /\ lastCall.arg.heading_deg = 361
    /\ Len(SamplesAt(Store, PathsItems[5][1])) < Len(SamplesAt(Store, PathsItems[1][1]))

(***************************************************************************)
(* The events of the heartbeats                                            *)
(***************************************************************************)
EventPaths == {SystemItems[i][1] : i \in 1..5}

\* no entry of q has the value of the entry before it
NoRepeat(q) == \A i \in 1..(Len(q) - 1) : q[i][2] # q[i + 1][2]

\* q2 is q1, or q1 and one entry more at time t whose value is not the latest of q1
SameOrChanged(q1, q2, t) ==
    \/ q2 = q1
    \/ /\ Len(q2) = Len(q1) + 1
       /\ SubSeq(q2, 1, Len(q1)) = q1
       /\ q2[Len(q2)][1] = t
       /\ q1 # <<>> => q2[Len(q2)][2] # q1[Len(q1)][2]

\* C26: whatever track_system calls were made, none of the event units
\* mission/armed, mission/stabilized, mission/guided, mission/manual and
\* system/status holds two equal entries in a row; a call leaves each as it was
\* or appends one entry, to an empty unit or with a value that differs from the
\* latest; has_been_armed is set by a call with the armed bit, and once set it
\* stays set.
C26_EventsOnChangeOnly ==
    [][/\ \A p \in EventPaths : NoRepeat(SamplesAt(Store, p))'
       /\ has_been_armed => has_been_armed'
       /\ lastCall'.op = "track_system"
              => /\ \A p \in EventPaths :
                        SameOrChanged(SamplesAt(Store, p), SamplesAt(Store, p)', _time)
                 /\ (/\ lastCall'.ret = "done"
                     /\ "MAV_MODE_FLAG_SAFETY_ARMED" \in lastCall'.arg.basemode)
                        => has_been_armed']_vars

\* armed, armed again and disarmed: two entries in mission/armed, and the System
\* has been armed
C26_Witness ==
    /\ lastCall.op = "track_system"
    /\ lastCall.arg.basemode = {}
    /\ Len(SamplesAt(Store, <<"system", "custom_mode">>)) = 3
    /\ Len(SamplesAt(Store, <<"mission", "armed">>)) = 2
    /\ SamplesAt(Store, <<"mission", "armed">>)[1][2] = "armed"
    /\ SamplesAt(Store, <<"mission", "armed">>)[2][2] = "disarmed"
    /\ has_been_armed

(***************************************************************************)
(* The link counters                                                       *)
(***************************************************************************)
\* the counter a packet with that outcome is counted in
CounterOf(whatwasdone) ==
    CASE whatwasdone = "MAVLINK_INTERPRETED" -> "num_interpreted"
      [] whatwasdone = "MAVLINK_UNINTERPRETED" -> "num_uninterpreted"
      [] OTHER -> "num_error"

OutcomeCounters == {"num_interpreted", "num_uninterpreted", "num_error"}

\* the step is a track_mavlink of a packet that has counted it once, in the
\* counter of its outcome
CountedOnce ==
    /\ _mavlink_summary'.num_received = _mavlink_summary.num_received + 1
    /\ \A c \in OutcomeCounters :
           _mavlink_summary'[c] = _mavlink_summary[c]
               + (IF c = CounterOf(lastCall'.arg.whatwasdone) THEN 1 ELSE 0)

\* the step has appended a throughput sample of the bytes gathered and has
\* reset the bytes, or has appended none and gathered the bytes of the packet
SampledOrGathered ==
    LET q == SamplesAt(Store, PathThroughput)
        bytes == _mavlink_summary._link_throughput_bytes + lastCall'.arg.data_length_bytes
    IN  IF _have_time_update
        THEN /\ SamplesAt(Store, PathThroughput)' = Append(q, <<_time, <<bytes, 128>>>>)
             /\ _mavlink_summary'._link_throughput_bytes = 0
        ELSE /\ SamplesAt(Store, PathThroughput)' = q
             /\ _mavlink_summary'._link_throughput_bytes = bytes

\* C30: whatever track_mavlink calls and time updates were made, num_received
\* is the sum of num_interpreted, num_uninterpreted and num_error; a call adds
\* one to num_received and one to the counter of its outcome, an outcome that
\* is neither interpreted nor uninterpreted counting as an error; the bytes
\* are reset to 0 in the calls that append a throughput sample and in no
\* other, and a sample is appended only after a time update was accepted.
C30_LinkCountersAddUp ==
    [][/\ _mavlink_summary'.num_received
              = _mavlink_summary'.num_interpreted + _mavlink_summary'.num_uninterpreted
                  + _mavlink_summary'.num_error
       /\ lastCall'.op = "track_mavlink" => CountedOnce /\ SampledOrGathered
       /\ (_have_time_update' /\ ~_have_time_update)
              => IsTimeUpdate(lastCall') /\ lastCall'.ret = 0
       /\ SamplesAt(Store, PathThroughput)' # <<>> => _have_time_update']_vars

\* two packets gathered before the first time update and sampled by the third
\* packet, of an outcome outside the enum, after it
C30_Witness ==
    /\ lastCall.op = "track_mavlink"
    /\ lastCall.arg.whatwasdone = "MAVLINK_PARSED_END"
    /\ _mavlink_summary.num_received = 3
    /\ _mavlink_summary.num_error = 1
    /\ _mavlink_summary.num_interpreted = 1
    /\ _mavlink_summary.num_uninterpreted = 1
    /\ _mavlink_summary._link_throughput_bytes = 0
    /\ SamplesAt(Store, PathThroughput) = <<<<USEC_PER_SEC, <<17 + 64 + 17, 128>>>>>>

(***************************************************************************)
(* The copy of a System                                                    *)
(***************************************************************************)
\* the flat map of the copy has the paths of the original, each bound to an
\* object of its own that holds what the original's unit holds
UnitsCopied(orig, clone) ==
    /\ DOMAIN clone.store.flat = DOMAIN orig.store.flat
    /\ \A p \in DOMAIN orig.store.flat :
           /\ clone.store.flat[p] # orig.store.flat[p]
           /\ clone.store.flat[p] \notin {orig.store.flat[q] : q \in DOMAIN orig.store.flat}
           /\ clone.store.data[clone.store.flat[p]] = orig.store.data[orig.store.flat[p]]

\* the fields the copy constructor assigns
CopiedFields ==
    {"id", "mavtype", "aptype", "has_been_armed", "_time", "_time_min", "_time_max",
     "_time_valid", "_time_offset_raw", "_time_offset_usec", "_time_offset_guess_usec",
     "_mavlink_summary"}

\* the store S, reached by an operation on the copy, holds every unit of the
\* original as the original holds it
OriginalKept(orig, S) ==
    \A p \in DOMAIN orig.store.flat :
        /\ orig.store.flat[p] \in DOMAIN S.data
        /\ S.data[orig.store.flat[p]] = orig.store.data[orig.store.flat[p]]

\* track calls, a merge and a postprocess on the copy leave the original's units
Independent(orig, clone) ==
    /\ OriginalKept(orig, track_paths(clone.store, clone._time, 47, 8, 5, 405, 90).store)
    /\ OriginalKept(orig, track_system(clone.store, clone._time, clone, 1,
                                       "MAV_STATE_ACTIVE", 3, {}, 0).store)
    /\ OriginalKept(orig, track_mavlink(clone.store, clone._time, TRUE,
                                        clone._mavlink_summary, 17, 30,
                                        "MAVLINK_ERROR").store)
    /\ OriginalKept(orig, postprocess(clone.store, 0).store)
    /\ OriginalKept(orig, merge_in(clone.store, clone._time_offset_raw,
                                   clone._time_offset_guess_usec,
                                   UnitsOf(orig.store, DOMAIN orig.store.flat), 0).store)

\* C25: the copy of the System holds the paths of the original, each bound to
\* a copy of its own of the original's unit; its identifier, types, armed
\* flag, time fields, reference pairs and link counters are the original's;
\* and track calls, a merge and a postprocess on the copy leave every unit of
\* the original as it is.
C25_CopyIsIndependentClone ==
    LET Then(clone) ==
            /\ UnitsCopied(ThisSystem, clone)
            /\ \A f \in CopiedFields \cup {"_have_time_update"} : clone[f] = ThisSystem[f]
            /\ Independent(ThisSystem, clone)
    IN  Then(MavSystem_copy(ThisSystem))

\* as the code has it: all of that but for _have_time_update, which the copy
\* has as a new System has it
CopyButForTimeUpdate ==
    LET Then(clone) ==
            /\ UnitsCopied(ThisSystem, clone)
            /\ \A f \in CopiedFields : clone[f] = ThisSystem[f]
            /\ ~clone._have_time_update
            /\ Independent(ThisSystem, clone)
    IN  Then(MavSystem_copy(ThisSystem))

\* a System with a valid time, a time update taken and a throughput sample on
\* file, whose copy has the valid time and the sample but no time update taken
CopyForgetsTimeUpdate ==
    /\ _time_valid
    /\ _have_time_update
    /\ SamplesAt(Store, PathThroughput) # <<>>
    /\ MavSystem_copy(ThisSystem)._time_valid
    /\ ~MavSystem_copy(ThisSystem)._have_time_update
    /\ SamplesAt(MavSystem_copy(ThisSystem).store, PathThroughput)
           = SamplesAt(Store, PathThroughput)

====
